---- MODULE Spec2Model ----
(***************************************************************************)
(* The character-display driver stack of "Old code/LCD1602.py":            *)
(*   PCF8574_I2C  the byte-oriented I2C expander port (cached byte),       *)
(*   LCD1602      the HD44780 4-bit protocol driven through that port.     *)
(*                                                                         *)
(* Every public method is one action.  The driver never branches on the    *)
(* port's state, so a method is first expanded into the list of port calls *)
(* and sleeps it makes, in program order (a "program"), and Run executes   *)
(* the program on the port exactly as digitalWrite / writeByte do.  A bus  *)
(* failure (bus.write_byte raising) is an input of the action: failAt = k  *)
(* makes the k-th bus write of the call raise, 0 makes none raise.         *)
(***************************************************************************)
EXTENDS Integers, Sequences, FiniteSets

VARIABLES
    phase,          \* "none": no port object; "port": self.pcf constructed,
                    \* init_display not completed; "ready": __init__ returned
    currentValue,   \* PCF8574_I2C.currentValue, the cached byte
    wire,           \* the last byte the bus accepted (NoByte before any)
    op,             \* the last call: its name, arguments and how it ended
    trace,          \* bus writes and sleeps of the last call, in order
    latched,        \* <<RS, nibble>> the display latched during the last call
    faultsLeft,     \* bus failures the environment may still inject
    calls,          \* print_line calls followed by the device model
    dev,            \* the display: memory, address counter, bytes received
    threads,        \* two threads inside digitalWrite: the lock, and for each
                    \* thread its position, arguments and local "value"
    app             \* product_display.py: its globals, the clock, and the
                    \* button callbacks that ran last

devVars == <<calls, dev>>

vars ==
    <<phase, currentValue, wire, op, trace, latched, faultsLeft, calls, dev,
      threads, app>>

(***************************************************************************)
(* Bounds of the model.                                                    *)
(***************************************************************************)
MaxFaults == 1      \* bus failures per behaviour
MaxFailAt == 7      \* a failing bus write is among the first MaxFailAt of a call
MaxLen    == 18     \* longest text handed to print / print_line
MaxCol    == 17     \* largest column handed to set_cursor
MaxRow    == 3      \* largest row handed to set_cursor / print_line
MaxNegRow == 3      \* rows down to -MaxNegRow
MaxCalls  == 3      \* print_line calls followed by the device model
MaxSigAt  == 24     \* SIGINT arrives within the first MaxSigAt steps of update_display
MaxRuns   == 1      \* times two threads are started on the port

(***************************************************************************)
(* Program constants.                                                      *)
(***************************************************************************)
LCD_CLEARDISPLAY   == 1
LCD_RETURNHOME     == 2
LCD_ENTRYMODESET   == 4
LCD_DISPLAYCONTROL == 8
LCD_FUNCTIONSET    == 32
LCD_SETDDRAMADDR   == 128
LCD_ENTRYLEFT      == 2
LCD_ENTRYSHIFTDECREMENT == 0
LCD_DISPLAYON      == 4
LCD_CURSOROFF      == 0
LCD_BLINKOFF       == 0
LCD_4BITMODE       == 0
LCD_2LINE          == 8
LCD_5x8DOTS        == 0
RS == 0
En == 2
D4 == 4
BL == 3
LineWidth == 16     \* the 16 of [:16].ljust(16)
Space     == 32     \* ljust's fill character
NoByte    == 0 - 1  \* wire before the first successful bus write

(***************************************************************************)
(* Bit arithmetic on Python integers (non-negative here).                  *)
(***************************************************************************)
Pow2(k) == 2 ^ k

\* (x >> k) & 1
Bit(x, k) == (x \div Pow2(k)) % 2

\* x | (1 << k)
SetBit(x, k) == IF Bit(x, k) = 1 THEN x ELSE x + Pow2(k)

\* x & ~(1 << k)
ClearBit(x, k) == IF Bit(x, k) = 1 THEN x - Pow2(k) ELSE x

\* a | b for a single-bit mask a = 1 << k
OrMask(k, b) == SetBit(b, k)

Min(a, b) == IF a < b THEN a ELSE b

(***************************************************************************)
(* PCF8574_I2C                                                             *)
(***************************************************************************)
\* readByte(): the cached byte, never a hardware read.
readByte == currentValue

\* digitalRead(pin): (value & (1 << pin) == (1 << pin)) and 1 or 0
digitalRead(pin) == IF Bit(readByte, pin) = 1 THEN 1 ELSE 0

\* digitalWrite clearing with "value &= (1 << pin)", the "~" forgotten.
digitalWriteValue_noInvert(cv, pin, newvalue) ==
    IF newvalue = 1 THEN SetBit(cv, pin)
    ELSE IF newvalue = 0 THEN Bit(cv, pin) * Pow2(pin)
    ELSE cv

\* The byte digitalWrite(pin, newvalue) hands to writeByte from cached byte cv:
\* set for 1, clear for 0, unchanged for any other newvalue.
digitalWriteValue(cv, pin, newvalue) ==
    IF newvalue = 1 THEN SetBit(cv, pin)
    ELSE IF newvalue = 0 THEN ClearBit(cv, pin)
    ELSE cv

(***************************************************************************)
(* Programs: port calls and sleeps in program order.                       *)
(*   <<"dw", pin, v>>   self.pcf.digitalWrite(pin, v)                      *)
(*   <<"wb", v, 0>>     writeByte(v)                                       *)
(*   <<"sleep", us, 0>> time.sleep(us microseconds)                        *)
(***************************************************************************)
DW(pin, v) == <<"dw", pin, v>>
WB(v)      == <<"wb", v, 0>>
SL(us)     == <<"sleep", us, 0>>

\* The byte a port call writes, from cached byte cv.
StepValue(cv, s) ==
    IF s[1] = "dw" THEN digitalWriteValue(cv, s[2], s[3]) ELSE s[2]

\* The display latches RS and the nibble on D4..D7 at a falling edge of En:
\* byte b with En = 0 accepted by the bus after a byte with En = 1.
Nibble(byte) == (byte \div 16) % 16

FallingEdge(prev, b) == prev # NoByte /\ Bit(prev, En) = 1 /\ Bit(b, En) = 0

\* writeByte writing the bus without assigning the cache.
writeByte_keepsCache(st, value, fails) ==
    IF fails
    THEN [st EXCEPT !.raised = "IOError"]
    ELSE [st EXCEPT !.wire = value, !.n = @ + 1,
                    !.trace = Append(@, <<"w", value>>),
                    !.latched = IF FallingEdge(st.wire, value)
                                THEN Append(@, <<Bit(value, RS), Nibble(value)>>)
                                ELSE @]

\* writeByte catching the bus error and going on.
writeByte_swallows(st, value, fails) ==
    IF fails
    THEN [st EXCEPT !.cv = value, !.n = @ + 1]
    ELSE [st EXCEPT !.cv = value, !.wire = value, !.n = @ + 1,
                    !.trace = Append(@, <<"w", value>>),
                    !.latched = IF FallingEdge(st.wire, value)
                                THEN Append(@, <<Bit(value, RS), Nibble(value)>>)
                                ELSE @]

\* writeByte(value) on port state st: the cache is assigned first, then the bus
\* is written; when the bus raises the cache keeps the new value, the wire does
\* not get it and the call stops.
writeByte(st, value, fails) ==
    IF fails
    THEN [st EXCEPT !.cv = value, !.raised = "IOError"]
    ELSE [st EXCEPT !.cv = value, !.wire = value, !.n = @ + 1,
                    !.trace = Append(@, <<"w", value>>),
                    !.latched = IF FallingEdge(st.wire, value)
                                THEN Append(@, <<Bit(value, RS), Nibble(value)>>)
                                ELSE @]

\* One step of a program on port state st.
Step(s, st, failAt) ==
    IF st.raised # "none" THEN st
    ELSE IF s[1] = "sleep" THEN [st EXCEPT !.trace = Append(@, <<"s", s[2]>>)]
    ELSE writeByte(st, StepValue(st.cv, s), st.n + 1 = failAt)

\* Steps lo..hi of a program in order (split in halves to keep the
\* evaluation shallow); nothing runs after a step has raised.
RECURSIVE RunRange(_, _, _, _, _)
RunRange(prog, lo, hi, st, failAt) ==
    IF lo > hi THEN st
    ELSE IF lo = hi THEN Step(prog[lo], st, failAt)
    ELSE LET mid == (lo + hi) \div 2
             left == RunRange(prog, lo, mid, st, failAt)
         IN  IF left.raised # "none" THEN left
             ELSE RunRange(prog, mid + 1, hi, left, failAt)

\* Run a program from cached byte cv and wire w; the failAt-th bus write raises.
Run(prog, cv, w, failAt) ==
    RunRange(prog, 1, Len(prog),
             [cv |-> cv, wire |-> w, n |-> 0, trace |-> <<>>, latched |-> <<>>,
              raised |-> "none"],
             failAt)

\* Number of bus writes a program makes when none fails.
IsPortCall(s) == s[1] # "sleep"

NWrites(prog) == Len(SelectSeq(prog, IsPortCall))

(***************************************************************************)
(* LCD1602: each method as the program of port calls it makes.             *)
(***************************************************************************)
\* pulse_enable without the last write: En low, high.
pulse_enable_staysHigh ==
    <<DW(En, 0), SL(100), DW(En, 1), SL(100)>>

\* pulse_enable without the first write: En high, low.
pulse_enable_highFirst ==
    <<DW(En, 1), SL(100), DW(En, 0), SL(100)>>

\* pulse_enable(): En low, high, low, 100 us after each write.
pulse_enable ==
    <<DW(En, 0), SL(100), DW(En, 1), SL(100), DW(En, 0), SL(100)>>

\* write_4bits raising the pins of the 1 bits and leaving the others as they
\* are.
write_4bits_setsOnly(value) ==
    SelectSeq([i \in 1..4 |-> DW(D4 + (i - 1), Bit(value, i - 1))],
              LAMBDA s : s[3] = 1)
    \o pulse_enable

\* write_4bits with range(1, 5): the nibble on pins 1..4.
write_4bits_pinsFrom1(value) ==
    [i \in 1..4 |-> DW(1 + (i - 1), Bit(value, i - 1))] \o pulse_enable

\* write_4bits without the pulse.
write_4bits_noPulse(value) ==
    [i \in 1..4 |-> DW(D4 + (i - 1), Bit(value, i - 1))]

\* write_4bits(value): for i in range(4, 8): digitalWrite(i, (value >> (i-4)) & 1)
write_4bits(value) ==
    [i \in 1..4 |-> DW(D4 + (i - 1), Bit(value, i - 1))] \o pulse_enable

\* command with "if value < 3".
command_longBelow3(value) ==
    <<DW(RS, 0)>> \o write_4bits(value \div 16) \o write_4bits(value % 16)
    \o <<SL(IF value < 3 THEN 2000 ELSE 50)>>

\* command sending the low nibble first.
command_lowFirst(value) ==
    <<DW(RS, 0)>> \o write_4bits(value % 16) \o write_4bits(value \div 16)
    \o <<SL(IF value < 4 THEN 2000 ELSE 50)>>

\* command(value): RS = 0, high nibble, low nibble, then 2 ms when value < 4
\* and 50 us otherwise.
command(value) ==
    <<DW(RS, 0)>> \o write_4bits(value \div 16) \o write_4bits(value % 16)
    \o <<SL(IF value < 4 THEN 2000 ELSE 50)>>

\* write_char sending a code above 255 as two bytes, the high one first.
write_char_sendsHighByte(value) ==
    (IF value > 255
     THEN <<DW(RS, 1)>> \o write_4bits(value \div 4096) \o write_4bits(value \div 256)
          \o <<SL(50)>>
     ELSE <<>>)
    \o <<DW(RS, 1)>> \o write_4bits(value \div 16) \o write_4bits(value % 16)
    \o <<SL(50)>>

\* write_char with the settle delay of command.
write_char_longBelow4(value) ==
    <<DW(RS, 1)>> \o write_4bits(value \div 16) \o write_4bits(value % 16)
    \o <<SL(IF value < 4 THEN 2000 ELSE 50)>>

\* write_char(value): RS = 1, high nibble, low nibble, 50 us.
write_char(value) ==
    <<DW(RS, 1)>> \o write_4bits(value \div 16) \o write_4bits(value % 16)
    \o <<SL(50)>>

\* clear switching the backlight on first.
clear_lightsUp == <<DW(BL, 1)>> \o command(LCD_CLEARDISPLAY) \o <<SL(2000)>>

\* clear() / home(): the command, then time.sleep(0.002).
clear == command(LCD_CLEARDISPLAY) \o <<SL(2000)>>

home == command(LCD_RETURNHOME) \o <<SL(2000)>>

\* init_display sending the entry mode before the clear.
init_display_entryBeforeClear ==
    <<DW(BL, 1), SL(50000)>>
    \o write_4bits(48) \o <<SL(5000)>>
    \o write_4bits(48) \o <<SL(5000)>>
    \o write_4bits(48) \o <<SL(2000)>>
    \o write_4bits(32)
    \o command(LCD_FUNCTIONSET + LCD_4BITMODE + LCD_2LINE + LCD_5x8DOTS)
    \o command(LCD_DISPLAYCONTROL + LCD_DISPLAYON + LCD_CURSOROFF + LCD_BLINKOFF)
    \o command(LCD_ENTRYMODESET + LCD_ENTRYLEFT + LCD_ENTRYSHIFTDECREMENT)
    \o clear

\* init_display waiting 4 ms instead of 5 ms after the first nibble.
init_display_shortWait ==
    <<DW(BL, 1), SL(50000)>>
    \o write_4bits(48) \o <<SL(4000)>>
    \o write_4bits(48) \o <<SL(5000)>>
    \o write_4bits(48) \o <<SL(2000)>>
    \o write_4bits(32)
    \o command(LCD_FUNCTIONSET + LCD_4BITMODE + LCD_2LINE + LCD_5x8DOTS)
    \o command(LCD_DISPLAYCONTROL + LCD_DISPLAYON + LCD_CURSOROFF + LCD_BLINKOFF)
    \o clear
    \o command(LCD_ENTRYMODESET + LCD_ENTRYLEFT + LCD_ENTRYSHIFTDECREMENT)

\* init_display going back to the function set after the entry mode.
init_display_loopsBack ==
    <<DW(BL, 1), SL(50000)>>
    \o write_4bits(48) \o <<SL(5000)>>
    \o write_4bits(48) \o <<SL(5000)>>
    \o write_4bits(48) \o <<SL(2000)>>
    \o write_4bits(32)
    \o command(LCD_FUNCTIONSET + LCD_4BITMODE + LCD_2LINE + LCD_5x8DOTS)
    \o command(LCD_DISPLAYCONTROL + LCD_DISPLAYON + LCD_CURSOROFF + LCD_BLINKOFF)
    \o clear
    \o command(LCD_ENTRYMODESET + LCD_ENTRYLEFT + LCD_ENTRYSHIFTDECREMENT)
    \o command(LCD_FUNCTIONSET + LCD_4BITMODE + LCD_2LINE + LCD_5x8DOTS)

\* init_display()
init_display ==
    <<DW(BL, 1), SL(50000)>>
    \o write_4bits(48) \o <<SL(5000)>>
    \o write_4bits(48) \o <<SL(5000)>>
    \o write_4bits(48) \o <<SL(2000)>>
    \o write_4bits(32)
    \o command(LCD_FUNCTIONSET + LCD_4BITMODE + LCD_2LINE + LCD_5x8DOTS)
    \o command(LCD_DISPLAYCONTROL + LCD_DISPLAYON + LCD_CURSOROFF + LCD_BLINKOFF)
    \o clear
    \o command(LCD_ENTRYMODESET + LCD_ENTRYLEFT + LCD_ENTRYSHIFTDECREMENT)

\* The second row placed right after the 16 cells of the first.
row_offsets_adjacent == <<0, 16>>

\* row_offsets = [0x00, 0x40]
row_offsets == <<0, 64>>

\* set_cursor without the row test.
ClampRow_none(row) == row

\* set_cursor's row after "if row >= len(row_offsets): row = len(row_offsets) - 1".
ClampRow(row) == IF row >= Len(row_offsets) THEN Len(row_offsets) - 1 ELSE row

\* Python's list index: 0-based, negative indices count from the end, anything
\* else raises IndexError.
PyIndexOk(list, i) == -Len(list) <= i /\ i < Len(list)

PyIndex(list, i) == IF i >= 0 THEN list[i + 1] ELSE list[Len(list) + i + 1]

\* The value set_cursor hands to command: LCD_SETDDRAMADDR | (col + row_offsets[row]).
CursorCommand(col, row) ==
    OrMask(7, col + PyIndex(row_offsets, ClampRow(row)))

\* set_cursor(col, row) as [prog, raised]: IndexError is raised by the list
\* index, before any port call.
set_cursor(col, row) ==
    IF PyIndexOk(row_offsets, ClampRow(row))
    THEN [prog |-> command(CursorCommand(col, row)), raised |-> "none"]
    ELSE [prog |-> <<>>, raised |-> "IndexError"]

\* print(message): write_char(ord(char)) for each char. A message is the
\* sequence of the code points of str(message).
RECURSIVE print(_)
print(message) ==
    IF message = <<>> THEN <<>>
    ELSE write_char(Head(message)) \o print(Tail(message))

\* str(message), not sliced.
Slice16_all(message) == message

\* str(message)[:16]
Slice16(message) == SubSeq(message, 1, Min(Len(message), LineWidth))

\* s, not padded.
Ljust16_none(s) == s

\* s.ljust(16): s followed by spaces up to 16, s itself when it is longer.
Ljust16(s) ==
    IF Len(s) >= LineWidth THEN s
    ELSE s \o [i \in 1..(LineWidth - Len(s)) |-> Space]

\* formatted_message = str(message)[:16].ljust(16)
formatted_message(message) == Ljust16(Slice16(message))

\* print_line printing first and setting the cursor afterwards.
print_line_cursorLast(line, message) ==
    LET sc == set_cursor(0, line) IN
    IF sc.raised # "none" THEN sc
    ELSE [prog |-> print(formatted_message(message)) \o sc.prog,
          raised |-> "none"]

\* print_line(line, message): set_cursor(0, line), then print(formatted_message).
print_line(line, message) ==
    LET sc == set_cursor(0, line) IN
    IF sc.raised # "none" THEN sc
    ELSE [prog |-> sc.prog \o print(formatted_message(message)),
          raised |-> "none"]

\* backlight_on(): self.pcf.digitalWrite(self.BL, 1)
backlight_on == <<DW(BL, 1)>>

\* backlight_off writing a zero byte.
backlight_off_writesZero == <<WB(0)>>

\* backlight_off(): self.pcf.digitalWrite(self.BL, 0)
backlight_off == <<DW(BL, 0)>>

(***************************************************************************)
(* Reading the latched nibbles as bytes.                                   *)
(***************************************************************************)
\* Nibble pairs as bytes <<RS, byte>>, high nibble first (4-bit mode).
PairBytes(l) ==
    [i \in 1..(Len(l) \div 2) |-> <<l[2 * i - 1][1], l[2 * i - 1][2] * 16 + l[2 * i][2]>>]

\* The nibbles pair up: an even number, RS the same within each pair.
WellPaired(l) ==
    /\ Len(l) % 2 = 0
    /\ \A i \in 1..(Len(l) \div 2) : l[2 * i - 1][1] = l[2 * i][1]

(***************************************************************************)
(* Inputs.                                                                 *)
(***************************************************************************)
NoText == <<>>

\* "Apple iPhone 15"
AppleText == <<65, 112, 112, 108, 101, 32, 105, 80, 104, 111, 110, 101, 32, 49, 53>>

\* "Time: 00:15"
TimeText == <<84, 105, 109, 101, 58, 32, 48, 48, 58, 49, 53>>

\* "▶05:32" (test_lcd.py), its first code point above 255
PlayText == <<9654, 48, 53, 58, 51, 50>>

\* A text of n capital letters.
LetterText(n) == [i \in 1..n |-> 65 + ((7 * i) % 26)]

Texts == {LetterText(n) : n \in 0..MaxLen} \cup {AppleText, TimeText, PlayText}

Rows == (0 - MaxNegRow)..MaxRow

Cols == (0..MaxCol) \cup {64, 192}

Bytes == 0..255

\* The bytes handed to writeByte directly: none, one bit, alternating, all bits.
WriteBytes == {0, 8, 85, 170, 255}

Pins == 0..7

CharCodes == (0..3) \cup {32, 65, 255, 9654}

\* clear, home, entry mode, display control, function set, set DDRAM address
CmdBytes == {1, 2, 3, 4, 6, 12, 40, 128, 192, 255}

FewTexts == {NoText, TimeText, LetterText(MaxLen)}

NoOp ==
    [name |-> "none", a |-> 0, b |-> 0, text |-> NoText, raised |-> "none",
     cv0 |-> 0, wire0 |-> 0, failAt |-> 0]

\* No call is in progress or waiting to be looked at.
Idle == op = NoOp

\* failAt = 0: no bus write of the call raises; failAt = k: the k-th does.
FailAts(prog) ==
    {0} \cup {k \in 1..Min(NWrites(prog), MaxFailAt) : faultsLeft > 0}

(***************************************************************************)
(* A call: run its program on the port and record what happened.  The      *)
(* record of a call (op, trace, latched) is what its caller can observe    *)
(* when it has ended, together with the port as the call found it (cv0,    *)
(* wire0) and the bus write the bus refused (failAt, 0 for none); Return   *)
(* drops it before the next call is made.                                  *)
(***************************************************************************)
Call(name, a, b, text, pr, failAt) ==
    \E r \in {Run(pr.prog, currentValue, wire, failAt)} :
        /\ currentValue' = r.cv
        /\ wire' = r.wire
        /\ trace' = r.trace
        /\ latched' = r.latched
        /\ faultsLeft' = IF failAt # 0 THEN faultsLeft - 1 ELSE faultsLeft
        /\ op' = [name |-> name, a |-> a, b |-> b, text |-> text,
                  raised |-> IF pr.raised # "none" THEN pr.raised ELSE r.raised,
                  cv0 |-> currentValue, wire0 |-> wire, failAt |-> failAt]

Plain(prog) == [prog |-> prog, raised |-> "none"]

\* PCF8574_I2C.__init__ handing out a port although the probe raised.
PortConstruct_keepsPort ==
    /\ Idle
    /\ phase = "none"
    /\ \E failAt \in FailAts(<<WB(0)>>) :
         /\ Call("PCF8574_I2C", 0, 0, NoText, Plain(<<WB(0)>>), failAt)
         /\ phase' = "port"

(***************************************************************************)
(* PCF8574_I2C: construction and the two writing methods.                  *)
(***************************************************************************)
\* PCF8574_I2C.__init__: currentValue = 0, then writeByte(0) as the bus probe.
\* When the probe raises no port object exists.
PortConstruct ==
    /\ Idle
    /\ phase = "none"
    /\ \E failAt \in FailAts(<<WB(0)>>) :
         /\ Call("PCF8574_I2C", 0, 0, NoText, Plain(<<WB(0)>>), failAt)
         /\ phase' = IF failAt = 0 THEN "port" ELSE "none"

WriteByte(values) ==
    /\ Idle
    /\ phase # "none"
    /\ \E value \in values : \E failAt \in FailAts(<<WB(value)>>) :
         Call("writeByte", value, 0, NoText, Plain(<<WB(value)>>), failAt)
    /\ UNCHANGED phase

DigitalWrite ==
    /\ Idle
    /\ phase # "none"
    /\ \E pin \in Pins, newvalue \in {0, 1} :
         \E failAt \in FailAts(<<DW(pin, newvalue)>>) :
           Call("digitalWrite", pin, newvalue, NoText,
                Plain(<<DW(pin, newvalue)>>), failAt)
    /\ UNCHANGED phase

\* The call has ended and its caller goes on.
Return ==
    /\ op # NoOp
    /\ op' = NoOp
    /\ trace' = <<>>
    /\ latched' = <<>>
    /\ UNCHANGED <<phase, currentValue, wire, faultsLeft>>

\* Nothing constructed; the device model is not followed.
NoDev == [mem |-> <<>>, ac |-> 0, log |-> <<>>]

\* No thread is inside digitalWrite.
NoThreads == [mode |-> "none", holder |-> 0, t |-> <<>>, runs |-> 0]

\* Seconds are counted in tenths.
TicksPerSecond == 10

\* time.time() when the program starts: long after 0.
Epoch == 1000000

\* None
None == 0 - 1

\* The globals of product_display.py, lines 56-64, as the module sets them.
Globals ==
    [products |-> <<>>,
     product_index |-> 0,
     stopwatch_start_time |-> None,
     stopwatch_running |-> FALSE,
     stopwatch_elapsed |-> 0,
     last_button_time |-> 0]

\* No callback has run.
NoPress ==
    [button |-> "none", at |-> 0, accepted |-> FALSE, before |-> Globals,
     prev |-> [button |-> "none", accepted |-> FALSE, index |-> 0]]

\* product_display.py before main: g its globals, now what time.time() returns,
\* ticks how often the clock has moved, press the callback that ran last: its
\* button, the time it read, whether it came DEBOUNCE_TIME or more after the
\* time in last_button_time, the globals it found, and of the callback before
\* it the button, whether it was accepted and the product_index it found.
NoApp == [g |-> Globals, now |-> Epoch, ticks |-> 0, press |-> NoPress]

InitPort(budget) ==
    /\ phase = "none"
    /\ currentValue = 0
    /\ wire = NoByte
    /\ op = NoOp
    /\ trace = <<>>
    /\ latched = <<>>
    /\ faultsLeft = budget
    /\ calls = <<>>
    /\ dev = NoDev
    /\ threads = NoThreads
    /\ app = NoApp

\* The bus may fail MaxFaults times.
Init == InitPort(MaxFaults)

\* The bus never fails.
InitReliable == InitPort(0)

NoDevice == UNCHANGED <<devVars, threads, app>>

NextPort ==
    \/ PortConstruct /\ NoDevice
    \/ WriteByte(WriteBytes) /\ NoDevice
    \/ DigitalWrite /\ NoDevice
    \/ Return /\ NoDevice

\* The expander port on its own, on a bus that may fail.
SpecPort == Init /\ [][NextPort]_vars

NextPortBytes ==
    \/ PortConstruct /\ NoDevice
    \/ WriteByte(Bytes) /\ NoDevice
    \/ DigitalWrite /\ NoDevice
    \/ Return /\ NoDevice

\* The expander port on its own, every byte written, on a reliable bus.
SpecPortBytes == InitReliable /\ [][NextPortBytes]_vars

(***************************************************************************)
(* LCD1602: one action per public method, its arguments drawn from the     *)
(* given sets.  LCD1602.__init__ is PortConstruct (self.pcf =              *)
(* PCF8574_I2C(address)) followed by InitDisplay.                          *)
(***************************************************************************)
InitDisplay ==
    /\ Idle
    /\ phase = "port"
    /\ \E failAt \in FailAts(init_display) :
         /\ Call("init_display", 0, 0, NoText, Plain(init_display), failAt)
         /\ phase' = IF failAt = 0 THEN "ready" ELSE "port"

Command(values) ==
    /\ Idle
    /\ phase = "ready"
    /\ \E value \in values :
         \E pr \in {Plain(command(value))} :
         \E failAt \in FailAts(pr.prog) :
           Call("command", value, 0, NoText, pr, failAt)
    /\ UNCHANGED phase

WriteChar(values) ==
    /\ Idle
    /\ phase = "ready"
    /\ \E value \in values :
         \E pr \in {Plain(write_char(value))} :
         \E failAt \in FailAts(pr.prog) :
           Call("write_char", value, 0, NoText, pr, failAt)
    /\ UNCHANGED phase

Clear ==
    /\ Idle
    /\ phase = "ready"
    /\ \E failAt \in FailAts(clear) :
         Call("clear", 0, 0, NoText, Plain(clear), failAt)
    /\ UNCHANGED phase

Home ==
    /\ Idle
    /\ phase = "ready"
    /\ \E failAt \in FailAts(home) :
         Call("home", 0, 0, NoText, Plain(home), failAt)
    /\ UNCHANGED phase

SetCursor(cols, rows) ==
    /\ Idle
    /\ phase = "ready"
    /\ \E col \in cols, row \in rows :
         \E pr \in {set_cursor(col, row)} :
         \E failAt \in FailAts(pr.prog) :
           Call("set_cursor", col, row, NoText, pr, failAt)
    /\ UNCHANGED phase

PrintMessage(messages) ==
    /\ Idle
    /\ phase = "ready"
    /\ \E message \in messages :
         \E pr \in {Plain(print(message))} :
         \E failAt \in FailAts(pr.prog) :
           Call("print", 0, 0, message, pr, failAt)
    /\ UNCHANGED phase

PrintLine(lines, messages) ==
    /\ Idle
    /\ phase = "ready"
    /\ \E line \in lines, message \in messages :
         \E pr \in {print_line(line, message)} :
         \E failAt \in FailAts(pr.prog) :
           Call("print_line", line, 0, message, pr, failAt)
    /\ UNCHANGED phase

\* The backlight methods need only self.pcf, which __init__ assigns first.
BacklightOn ==
    /\ Idle
    /\ phase \in {"port", "ready"}
    /\ \E failAt \in FailAts(backlight_on) :
         Call("backlight_on", 0, 0, NoText, Plain(backlight_on), failAt)
    /\ UNCHANGED phase

BacklightOff ==
    /\ Idle
    /\ phase \in {"port", "ready"}
    /\ \E failAt \in FailAts(backlight_off) :
         Call("backlight_off", 0, 0, NoText, Plain(backlight_off), failAt)
    /\ UNCHANGED phase

Next ==
    \/ PortConstruct /\ NoDevice
    \/ InitDisplay /\ NoDevice
    \/ Command(CmdBytes) /\ NoDevice
    \/ WriteChar(CharCodes) /\ NoDevice
    \/ Clear /\ NoDevice
    \/ Home /\ NoDevice
    \/ SetCursor({0, 5}, Rows) /\ NoDevice
    \/ PrintMessage(FewTexts) /\ NoDevice
    \/ PrintLine(Rows, {NoText, TimeText}) /\ NoDevice
    \/ BacklightOn /\ NoDevice
    \/ BacklightOff /\ NoDevice
    \/ Return /\ NoDevice

\* The display driver on its port, every method with a few arguments, on a
\* bus that may fail.
Spec == Init /\ [][Next]_vars

\* Every method on a bus that never fails.
SpecReliable == InitReliable /\ [][Next]_vars

(***************************************************************************)
(* The display memory (DDRAM of a two-line HD44780) with its address       *)
(* counter, as far as the driver uses it.  The display is taken to receive *)
(* the driver's nibble pairs as bytes, high nibble first.                  *)
(***************************************************************************)
DDRAM == (0..39) \cup (64..103)

\* Where the display shows row r, column c.
CellAddr(r, c) == (IF r = 0 THEN 0 ELSE 64) + c

\* The address counter moves right after each character and wraps from the end
\* of a line to the start of the other.
NextAddr(a) == IF a = 39 THEN 64 ELSE IF a = 103 THEN 0 ELSE a + 1

DevPowerOn == [mem |-> [a \in DDRAM |-> Space], ac |-> 0, log |-> <<>>]

\* The display executes one received byte: a character goes to the cell the
\* address counter points at, Set-DDRAM-Address sets the counter, Clear-Display
\* blanks the memory, Clear-Display and Return-Home reset the counter.
DevExec(d, rs, byte) ==
    LET e == [d EXCEPT !.log = Append(@, <<rs, byte>>)] IN
    IF rs = 1
    THEN [e EXCEPT !.mem = IF d.ac \in DDRAM THEN [@ EXCEPT ![d.ac] = byte] ELSE @,
                   !.ac = NextAddr(d.ac)]
    ELSE IF byte >= 128 THEN [e EXCEPT !.ac = byte - 128]
    ELSE IF byte = 1 THEN [e EXCEPT !.mem = [a \in DDRAM |-> Space], !.ac = 0]
    ELSE IF byte \in {2, 3} THEN [e EXCEPT !.ac = 0]
    ELSE e

RECURSIVE DevRun(_, _, _)
DevRun(d, bs, i) ==
    IF i > Len(bs) THEN d
    ELSE DevRun(DevExec(d, bs[i][1], bs[i][2]), bs, i + 1)

\* The 16 visible cells of row r.
VisibleRow(d, r) == [c \in 1..LineWidth |-> d.mem[CellAddr(r, c - 1)]]

\* The display receives the initialization; what it receives is logged from
\* then on.
DeviceInit ==
    /\ UNCHANGED <<threads, app>>
    /\ calls' = <<>>
    /\ dev' = IF op'.raised = "none"
              THEN [DevRun(DevPowerOn, PairBytes(latched'), 1) EXCEPT !.log = <<>>]
              ELSE NoDev

\* The display receives what the call latched.
DeviceFollows ==
    /\ UNCHANGED <<threads, app>>
    /\ Len(calls) < MaxCalls
    /\ calls' = Append(calls, <<op'.a, op'.text>>)
    /\ dev' = DevRun(dev, PairBytes(latched'), 1)

DisplayTexts == {NoText, AppleText, TimeText, LetterText(MaxLen)}

NextDisplay ==
    \/ PortConstruct /\ NoDevice
    \/ InitDisplay /\ DeviceInit
    \/ PrintLine({0, 1}, DisplayTexts) /\ DeviceFollows
    \/ Return /\ NoDevice

\* print_line calls on a reliable bus, the display receiving them.
SpecDisplay == InitReliable /\ [][NextDisplay]_vars

NextMemory ==
    \/ PortConstruct /\ NoDevice
    \/ InitDisplay /\ DeviceInit
    \/ SetCursor({LineWidth - 2}, {0, 1}) /\ DeviceFollows
    \/ PrintMessage({AppleText}) /\ DeviceFollows
    \/ PrintLine({0, 1}, {TimeText, LetterText(MaxLen)}) /\ DeviceFollows
    \/ Return /\ NoDevice

\* print_line on a display whose memory holds text on and off the screen, put
\* there by set_cursor and print.
SpecMemory == InitReliable /\ [][NextMemory]_vars

NextCommand ==
    \/ PortConstruct /\ NoDevice
    \/ InitDisplay /\ NoDevice
    \/ Command(Bytes) /\ NoDevice
    \/ Clear /\ NoDevice
    \/ Home /\ NoDevice
    \/ BacklightOff /\ NoDevice
    \/ Return /\ NoDevice

\* command with every byte, clear and home, on a reliable bus.
SpecCommand == InitReliable /\ [][NextCommand]_vars

NextChar ==
    \/ PortConstruct /\ NoDevice
    \/ InitDisplay /\ NoDevice
    \/ WriteChar(Bytes) /\ NoDevice
    \/ BacklightOn /\ NoDevice
    \/ BacklightOff /\ NoDevice
    \/ Return /\ NoDevice

\* write_char with every byte, on a reliable bus.
SpecChar == InitReliable /\ [][NextChar]_vars

NextPrint ==
    \/ PortConstruct /\ NoDevice
    \/ InitDisplay /\ NoDevice
    \/ PrintMessage(Texts) /\ NoDevice
    \/ Home /\ NoDevice
    \/ BacklightOff /\ NoDevice
    \/ Return /\ NoDevice

\* print with texts of every length, on a reliable bus.
SpecPrint == InitReliable /\ [][NextPrint]_vars

\* Code points above 255: U+0100, the two of test_lcd.py and product_display.py,
\* the last of the basic plane and the last code point.
WideCodes == {256, 9208, 9654, 65535, 1114111}

\* "Test ▶ and ⏸ far right", its 17th character above 255.
FarRightText ==
    <<84, 101, 115, 116, 32, 9654, 32, 97, 110, 100, 32, 9208, 32, 102, 97, 114,
      9654, 32>>

WideTexts == {AppleText, PlayText, [PlayText EXCEPT ![1] = 9208], FarRightText}

NextWide ==
    \/ PortConstruct /\ NoDevice
    \/ InitDisplay /\ NoDevice
    \/ WriteChar(WideCodes) /\ NoDevice
    \/ PrintMessage(WideTexts) /\ NoDevice
    \/ PrintLine({0, 1}, WideTexts) /\ NoDevice
    \/ BacklightOff /\ NoDevice
    \/ Return /\ NoDevice

\* Texts with characters above 255, on a reliable bus.
SpecWide == InitReliable /\ [][NextWide]_vars

RenderTexts == {NoText, AppleText, TimeText, PlayText, LetterText(MaxLen)}

NextRender ==
    \/ PortConstruct /\ NoDevice
    \/ InitDisplay /\ NoDevice
    \/ Clear /\ NoDevice
    \/ WriteChar(CharCodes) /\ NoDevice
    \/ BacklightOn /\ NoDevice
    \/ BacklightOff /\ NoDevice
    \/ PrintLine({0 - 1, 0, 1, 2}, RenderTexts) /\ NoDevice
    \/ Return /\ NoDevice

\* print_line after different earlier calls, on a reliable bus.
SpecRender == InitReliable /\ [][NextRender]_vars

NextLine ==
    \/ PortConstruct /\ NoDevice
    \/ InitDisplay /\ NoDevice
    \/ SetCursor(Cols, Rows) /\ NoDevice
    \/ PrintLine(Rows, Texts) /\ NoDevice
    \/ BacklightOff /\ NoDevice
    \/ BacklightOn /\ NoDevice
    \/ Return /\ NoDevice

\* set_cursor and print_line with every row, column and text of the bounds,
\* on a reliable bus.
SpecLine == InitReliable /\ [][NextLine]_vars

(***************************************************************************)
(* A bus failure at any bus write of an operation.                         *)
(***************************************************************************)
Operation(name, a, b, text, pr) ==
    [name |-> name, a |-> a, b |-> b, text |-> text, pr |-> pr]

\* One call of every driver operation.
EveryOperation ==
    {Operation("init_display", 0, 0, NoText, Plain(init_display)),
     Operation("command", 40, 0, NoText, Plain(command(40))),
     Operation("write_char", 65, 0, NoText, Plain(write_char(65))),
     Operation("clear", 0, 0, NoText, Plain(clear)),
     Operation("home", 0, 0, NoText, Plain(home)),
     Operation("set_cursor", 5, 1, NoText, set_cursor(5, 1)),
     Operation("print", 0, 0, TimeText, Plain(print(TimeText))),
     Operation("print_line", 1, 0, TimeText, print_line(1, TimeText)),
     Operation("backlight_on", 0, 0, NoText, Plain(backlight_on)),
     Operation("backlight_off", 0, 0, NoText, Plain(backlight_off))}

\* The first bus failure of a behaviour strikes an operation at any of its bus
\* writes.
BusFailure ==
    /\ Idle
    /\ faultsLeft > 0
    /\ faultsLeft = MaxFaults
    /\ \E o \in EveryOperation :
         /\ phase = IF o.name = "init_display" THEN "port" ELSE "ready"
         /\ \E failAt \in 1..NWrites(o.pr.prog) :
              Call(o.name, o.a, o.b, o.text, o.pr, failAt)
    /\ UNCHANGED phase

NextFailure ==
    \/ PortConstruct /\ NoDevice
    \/ InitDisplay /\ NoDevice
    \/ WriteChar({65}) /\ NoDevice
    \/ BacklightOff /\ NoDevice
    \/ BusFailure /\ NoDevice
    \/ Return /\ NoDevice

\* Every driver operation with a bus failure at any of its bus writes.
SpecFailure == Init /\ [][NextFailure]_vars

(***************************************************************************)
(* product_display.py: main, its display functions and its SIGINT handler. *)
(* phase goes "none" -> "lcd" -> "loop" -> "finally" -> "exited", or from  *)
(* "none" to "returned" when the display cannot be constructed.            *)
(***************************************************************************)
\* "Samsung Galaxy S24"
SamsungText == <<83, 97, 109, 115, 117, 110, 103, 32, 71, 97, 108, 97, 120, 121, 32, 83, 50, 52>>

\* "⏸00:00"
PauseText == <<9208, 48, 48, 58, 48, 48>>

\* "Initializing..." / "Please wait..."
InitializingText == <<73, 110, 105, 116, 105, 97, 108, 105, 122, 105, 110, 103, 46, 46, 46>>

PleaseWaitText == <<80, 108, 101, 97, 115, 101, 32, 119, 97, 105, 116, 46, 46, 46>>

\* "Goodbye!" / "System shutdown"
GoodbyeText == <<71, 111, 111, 100, 98, 121, 101, 33>>

ShutdownText == <<83, 121, 115, 116, 101, 109, 32, 115, 104, 117, 116, 100, 111, 119, 110>>

\* products[product_index]
Products == {AppleText, SamsungText}

\* status_text
StatusTexts == {PlayText, PauseText}

\* LCD1602(0x27): the port with its probe, then init_display.
LCD1602 == <<WB(0)>> \o init_display

\* display_loading_screen(), the body of its try.
display_loading_screen ==
    clear \o print_line(0, InitializingText).prog
    \o print_line(1, PleaseWaitText).prog \o <<SL(2000000)>> \o clear

\* update_display(), the body of its try.
update_display(product, status) ==
    print_line(0, product).prog \o print_line(1, status).prog

\* signal_handler putting the backlight out before the last clear.
signal_handler_lightFirst ==
    clear \o print_line(0, GoodbyeText).prog \o print_line(1, ShutdownText).prog
    \o <<SL(1000000)>> \o backlight_off \o clear

\* signal_handler(), the body of its try.
signal_handler ==
    clear \o print_line(0, GoodbyeText).prog \o print_line(1, ShutdownText).prog
    \o <<SL(1000000)>> \o clear \o backlight_off

\* main going on although the display could not be constructed.
MainConstruct_goesOn ==
    /\ Idle
    /\ phase = "none"
    /\ \E failAt \in FailAts(LCD1602) :
         /\ Call("LCD1602", 0, 0, NoText, Plain(LCD1602), failAt)
         /\ phase' = "lcd"

\* main, lines 267-276: lcd = LCD1602(0x27) in a try; on an exception main
\* returns.
MainConstruct ==
    /\ Idle
    /\ phase = "none"
    /\ \E failAt \in FailAts(LCD1602) :
         /\ Call("LCD1602", 0, 0, NoText, Plain(LCD1602), failAt)
         /\ phase' = IF failAt = 0 THEN "lcd" ELSE "returned"

\* main, lines 278-283: setup_gpio(), then display_loading_screen(), which
\* catches what the driver raises.
LoadingScreen ==
    /\ Idle
    /\ phase = "lcd"
    /\ \E failAt \in FailAts(display_loading_screen) :
         Call("display_loading_screen", 0, 0, NoText,
              Plain(display_loading_screen), failAt)
    /\ phase' = "loop"

\* update_display letting the driver's exception through to the main loop,
\* which ends.
UpdateDisplay_propagates ==
    /\ Idle
    /\ phase = "loop"
    /\ \E product \in Products, status \in StatusTexts :
         \E pr \in {Plain(update_display(product, status))} :
         \E failAt \in FailAts(pr.prog) :
           /\ Call("update_display", 0, 0, product, pr, failAt)
           /\ phase' = IF failAt = 0 THEN "loop" ELSE "finally"

\* One cycle of the main loop, lines 292-294: update_display(), which catches
\* what the driver raises, then the sleep.
UpdateDisplay ==
    /\ Idle
    /\ phase = "loop"
    /\ \E product \in Products, status \in StatusTexts :
         \E pr \in {Plain(update_display(product, status))} :
         \E failAt \in FailAts(pr.prog) :
           /\ Call("update_display", 0, 0, product, pr, failAt)
           /\ phase' = "loop"

\* signal_handler: on SIGINT while the main loop sleeps, and once more from the
\* finally clause of main, which the handler's sys.exit(0) passes through.
SignalHandler ==
    /\ Idle
    /\ phase \in {"loop", "finally"}
    /\ \E failAt \in FailAts(signal_handler) :
         Call("signal_handler", 0, 0, NoText, Plain(signal_handler), failAt)
    /\ phase' = IF phase = "loop" THEN "finally" ELSE "exited"

\* SIGINT while the main loop is inside update_display, k steps into it: the
\* handler runs at once, in the main thread, and its sys.exit(0) abandons the
\* rest of update_display.  The record holds the number of bus writes
\* update_display had issued (a) and k (b).
SigintInUpdate ==
    /\ Idle
    /\ phase = "loop"
    /\ \E product \in Products, k \in 1..MaxSigAt :
         \E begun \in {SubSeq(update_display(product, PauseText), 1, k)} :
           Call("signal_handler", NWrites(begun), k, product,
                Plain(begun \o signal_handler), 0)
    /\ phase' = "finally"

NextApp ==
    \/ MainConstruct /\ NoDevice
    \/ LoadingScreen /\ NoDevice
    \/ UpdateDisplay /\ NoDevice
    \/ SignalHandler /\ NoDevice
    \/ SigintInUpdate /\ NoDevice
    \/ Return /\ NoDevice

\* product_display.py on a bus that may fail.
SpecApp == Init /\ [][NextApp]_vars

(***************************************************************************)
(* product_display.py: the three button callbacks, the stopwatch and the   *)
(* main loop that shows them.  time.time() is the variable app.now, in     *)
(* tenths of a second; it never runs backwards.  RPi.GPIO runs the         *)
(* callbacks one after the other in its own thread, so a callback is one   *)
(* step; the main thread's update_display can run between any two.  The    *)
(* clock and the callbacks move between the calls of the main thread: op   *)
(* keeps the last call as it was made.                                     *)
(***************************************************************************)
MaxProducts == 3

MaxTicks == 4

\* DEBOUNCE_TIME = 0.3
DEBOUNCE_TIME == 3

\* How far the clock moves at once: a tenth of a second, the debounce time.
ShortGaps == {1, DEBOUNCE_TIME}

\* The debounce time, a hundred minutes.
LongGaps == {DEBOUNCE_TIME, 6000 * TicksPerSecond}

\* "Google Pixel 8"
GoogleText == <<71, 111, 111, 103, 108, 101, 32, 80, 105, 120, 101, 108, 32, 56>>

\* "iPad Pro 12.9"
IPadText == <<105, 80, 97, 100, 32, 80, 114, 111, 32, 49, 50, 46, 57>>

\* get_default_products(), its first entries.
get_default_products == <<AppleText, SamsungText, GoogleText, IPadText>>

\* "if stopwatch_start_time:" is false for None and for 0.0.
Truthy(t) == t # None /\ t # 0

\* up_button_pressed leaving out the modulo.
up_button_pressed_noWrap(g, current_time) ==
    IF current_time - g.last_button_time < DEBOUNCE_TIME THEN g
    ELSE IF Len(g.products) > 0
         THEN [g EXCEPT !.last_button_time = current_time,
                        !.product_index = g.product_index - 1]
         ELSE [g EXCEPT !.last_button_time = current_time]

\* up_button_pressed(channel), lines 124-136: the globals it leaves.
up_button_pressed(g, current_time) ==
    IF current_time - g.last_button_time < DEBOUNCE_TIME THEN g
    ELSE IF Len(g.products) > 0
         THEN [g EXCEPT !.last_button_time = current_time,
                        !.product_index = (g.product_index - 1) % Len(g.products)]
         ELSE [g EXCEPT !.last_button_time = current_time]

\* down_button_pressed noting the time of every press, refused or not.
down_button_pressed_stampsFirst(g, current_time) ==
    IF current_time - g.last_button_time < DEBOUNCE_TIME
    THEN [g EXCEPT !.last_button_time = current_time]
    ELSE IF Len(g.products) > 0
         THEN [g EXCEPT !.last_button_time = current_time,
                        !.product_index = (g.product_index + 1) % Len(g.products)]
         ELSE [g EXCEPT !.last_button_time = current_time]

\* down_button_pressed(channel), lines 138-150.
down_button_pressed(g, current_time) ==
    IF current_time - g.last_button_time < DEBOUNCE_TIME THEN g
    ELSE IF Len(g.products) > 0
         THEN [g EXCEPT !.last_button_time = current_time,
                        !.product_index = (g.product_index + 1) % Len(g.products)]
         ELSE [g EXCEPT !.last_button_time = current_time]

\* timer_button_pressed keeping only the last run on a stop.
timer_button_pressed_lastRunOnly(g, current_time, later) ==
    IF current_time - g.last_button_time < DEBOUNCE_TIME THEN g
    ELSE IF g.stopwatch_running
         THEN [g EXCEPT !.last_button_time = current_time,
                        !.stopwatch_elapsed =
                            IF Truthy(g.stopwatch_start_time)
                            THEN later - g.stopwatch_start_time ELSE @,
                        !.stopwatch_running = FALSE,
                        !.stopwatch_start_time = None]
         ELSE [g EXCEPT !.last_button_time = current_time,
                        !.stopwatch_running = TRUE,
                        !.stopwatch_start_time = later]

\* timer_button_pressed(channel), lines 152-173: current_time is its first
\* reading of time.time(), later its second (line 165 or line 172).
timer_button_pressed(g, current_time, later) ==
    IF current_time - g.last_button_time < DEBOUNCE_TIME THEN g
    ELSE IF g.stopwatch_running
         THEN [g EXCEPT !.last_button_time = current_time,
                        !.stopwatch_elapsed =
                            IF Truthy(g.stopwatch_start_time)
                            THEN @ + (later - g.stopwatch_start_time) ELSE @,
                        !.stopwatch_running = FALSE,
                        !.stopwatch_start_time = None]
         ELSE [g EXCEPT !.last_button_time = current_time,
                        !.stopwatch_running = TRUE,
                        !.stopwatch_start_time = later]

\* int(x) for x in tenths: towards zero.
PyInt(x) == IF x >= 0 THEN x \div TicksPerSecond ELSE 0 - ((0 - x) \div TicksPerSecond)

\* The decimal digits of n >= 0.
RECURSIVE Decimal(_)
Decimal(n) == IF n < 10 THEN <<48 + n>> ELSE Decimal(n \div 10) \o <<48 + (n % 10)>>

\* f"{n:02d}"
Format02d(n) ==
    IF n < 0 THEN <<45>> \o Decimal(0 - n)
    ELSE IF n < 10 THEN <<48, 48 + n>>
    ELSE Decimal(n)

\* Lines 183-190 of format_stopwatch_time: <<minutes, seconds>> of total_elapsed.
MinutesSeconds(total_elapsed) ==
    LET total_seconds == PyInt(total_elapsed)
        minutes == total_seconds \div 60
        seconds == total_seconds % 60
    IN  IF minutes > 99 THEN <<99, 59>> ELSE <<minutes, seconds>>

\* format_stopwatch_time(), lines 175-192, time.time() returning now.
format_stopwatch_time(g, now) ==
    LET total_elapsed ==
            g.stopwatch_elapsed
            + (IF g.stopwatch_running /\ Truthy(g.stopwatch_start_time)
               THEN now - g.stopwatch_start_time ELSE 0)
        ms == MinutesSeconds(total_elapsed)
    IN  Format02d(ms[1]) \o <<58>> \o Format02d(ms[2])

\* status_text, lines 204-208.
status_text(g, now) ==
    <<(IF g.stopwatch_running THEN 9654 ELSE 9208)>> \o format_stopwatch_time(g, now)

\* update_display() with the globals g: products[product_index] raises
\* IndexError before anything is sent when the index is out of range.
update_display_of(g, now) ==
    IF PyIndexOk(g.products, g.product_index)
    THEN Plain(update_display(PyIndex(g.products, g.product_index), status_text(g, now)))
    ELSE [prog |-> <<>>, raised |-> "IndexError"]

AppOnly == UNCHANGED <<phase, currentValue, wire, op, trace, latched, faultsLeft, devVars, threads>>

\* load_products(), line 262: the lines of products.txt or the default list;
\* main goes on only with a list that is not empty.
LoadProducts(lengths) ==
    /\ phase = "none"
    /\ app.g.products = <<>>
    /\ \E n \in lengths :
         app' = [app EXCEPT !.g.products = SubSeq(get_default_products, 1, n)]
    /\ AppOnly

MainConstructLoaded ==
    /\ app.g.products # <<>>
    /\ MainConstruct

\* One cycle of the main loop with the globals as they are: op.a is the index
\* update_display read, op.text the status_text it made.
ShowProduct ==
    /\ Idle
    /\ phase = "loop"
    /\ \E pr \in {update_display_of(app.g, app.now)} :
         Call("update_display", app.g.product_index, 0,
              status_text(app.g, app.now), pr, 0)
    /\ UNCHANGED <<phase, devVars, threads, app>>

\* Time passes.
Tick(gaps) ==
    /\ Idle
    /\ phase = "loop"
    /\ app.ticks < MaxTicks
    /\ \E d \in gaps : app' = [app EXCEPT !.now = @ + d, !.ticks = @ + 1]
    /\ AppOnly

\* What a callback leaves in app: h the globals after it, later the clock.
Pressed(button, h, later) ==
    [app EXCEPT !.g = h,
                !.now = later,
                !.press =
                    [button |-> button,
                     at |-> app.now,
                     accepted |-> app.now - app.g.last_button_time >= DEBOUNCE_TIME,
                     before |-> app.g,
                     prev |-> [button |-> app.press.button,
                               accepted |-> app.press.accepted,
                               index |-> app.press.before.product_index]]]

\* The callbacks are registered by setup_gpio (line 279) and removed by
\* GPIO.cleanup.
UpButton ==
    /\ Idle
    /\ phase = "loop"
    /\ app' = Pressed("UP", up_button_pressed(app.g, app.now), app.now)
    /\ AppOnly

DownButton ==
    /\ Idle
    /\ phase = "loop"
    /\ app' = Pressed("DOWN", down_button_pressed(app.g, app.now), app.now)
    /\ AppOnly

\* The second reading of the clock comes one of delays after the first; a
\* callback that returns at the debounce test does not read it again.
TimerButton(delays) ==
    /\ Idle
    /\ phase = "loop"
    /\ \E later \in {app.now + d : d \in delays} :
         /\ later = app.now \/ app.now - app.g.last_button_time >= DEBOUNCE_TIME
         /\ app' = Pressed("TIMER", timer_button_pressed(app.g, app.now, later), later)
    /\ AppOnly

NextButtons ==
    \/ LoadProducts(1..MaxProducts)
    \/ MainConstructLoaded /\ NoDevice
    \/ LoadingScreen /\ NoDevice
    \/ ShowProduct
    \/ Tick({DEBOUNCE_TIME})
    \/ UpButton
    \/ DownButton
    \/ Return /\ NoDevice

\* product_display.py with its UP and DOWN buttons, on a bus that never fails.
SpecButtons == InitReliable /\ [][NextButtons]_vars

NextStopwatch ==
    \/ LoadProducts({1})
    \/ MainConstructLoaded /\ NoDevice
    \/ LoadingScreen /\ NoDevice
    \/ ShowProduct
    \/ Tick(LongGaps)
    \/ TimerButton({0})
    \/ Return /\ NoDevice

\* product_display.py with its TIMER button; the callback reads the clock twice
\* within one tenth of a second.
SpecStopwatch == InitReliable /\ [][NextStopwatch]_vars

NextDebounce ==
    \/ LoadProducts(1..MaxProducts)
    \/ MainConstructLoaded /\ NoDevice
    \/ LoadingScreen /\ NoDevice
    \/ Tick(ShortGaps)
    \/ UpButton
    \/ DownButton
    \/ TimerButton({0, 1})
    \/ Return /\ NoDevice

\* The three callbacks and the clock, without the display.
SpecDebounce == InitReliable /\ [][NextDebounce]_vars

(***************************************************************************)
(* Two threads calling digitalWrite on one port.  A thread switch can fall *)
(* between any two of the three accesses digitalWrite makes to what the    *)
(* threads share: the read of self.currentValue (line 33), the assignment  *)
(* to self.currentValue in writeByte (line 25) and the bus write (line     *)
(* 26).  The set and clear of lines 34-37 work on the local "value".  With *)
(* an external lock each thread holds it around its whole call.            *)
(***************************************************************************)
ThreadIds == {1, 2}

Modes == {"free", "mutex"}

AllDone == threads.mode # "none" /\ \A i \in ThreadIds : threads.t[i].pc = "done"

\* Both threads are handed their digitalWrite(pin, newvalue) calls, on
\* different pins.
StartThreads ==
    /\ Idle
    /\ phase # "none"
    /\ threads.runs < MaxRuns
    /\ \E mode \in Modes, p \in Pins, q \in Pins, v \in {0, 1}, w \in {0, 1} :
         /\ p # q
         /\ threads' =
              [mode |-> mode, holder |-> 0, runs |-> threads.runs + 1,
               t |-> [i \in ThreadIds |->
                        [pc |-> IF mode = "mutex" THEN "acquire" ELSE "read",
                         pin |-> IF i = 1 THEN p ELSE q,
                         newvalue |-> IF i = 1 THEN v ELSE w,
                         value |-> 0]]]
    /\ op' = [NoOp EXCEPT !.name = "threads", !.cv0 = currentValue, !.wire0 = wire]
    /\ UNCHANGED <<phase, currentValue, wire, trace, latched, faultsLeft, devVars, app>>

\* The caller's lock, taken before digitalWrite is entered.
ThreadAcquire(i) ==
    /\ threads.mode = "mutex"
    /\ threads.t[i].pc = "acquire"
    /\ threads.holder = 0
    /\ threads' = [threads EXCEPT !.holder = i, !.t[i].pc = "read"]
    /\ UNCHANGED <<phase, currentValue, wire, op, trace, latched, faultsLeft, devVars, app>>

\* digitalWrite lines 33-37: value = self.currentValue, then the set or clear
\* on the local.
ThreadRead(i) ==
    /\ threads.mode # "none"
    /\ threads.t[i].pc = "read"
    /\ threads' =
         [threads EXCEPT
            !.t[i].value = digitalWriteValue(currentValue, threads.t[i].pin,
                                             threads.t[i].newvalue),
            !.t[i].pc = "store"]
    /\ UNCHANGED <<phase, currentValue, wire, op, trace, latched, faultsLeft, devVars, app>>

\* writeByte not assigning the cached byte.
ThreadStore_skips(i) ==
    /\ threads.mode # "none"
    /\ threads.t[i].pc = "store"
    /\ threads' = [threads EXCEPT !.t[i].pc = "bus"]
    /\ UNCHANGED <<phase, currentValue, wire, op, trace, latched, faultsLeft, devVars, app>>

\* writeByte line 25: self.currentValue = value.
ThreadStore(i) ==
    /\ threads.mode # "none"
    /\ threads.t[i].pc = "store"
    /\ currentValue' = threads.t[i].value
    /\ threads' = [threads EXCEPT !.t[i].pc = "bus"]
    /\ UNCHANGED <<phase, wire, op, trace, latched, faultsLeft, devVars, app>>

\* writeByte line 26: self.bus.write_byte(self.address, value), then the
\* return of digitalWrite.
ThreadBusWrite(i) ==
    /\ threads.mode # "none"
    /\ threads.t[i].pc = "bus"
    /\ wire' = threads.t[i].value
    /\ trace' = Append(trace, <<"w", threads.t[i].value>>)
    /\ threads' =
         [threads EXCEPT
            !.t[i].pc = IF threads.mode = "mutex" THEN "release" ELSE "done"]
    /\ UNCHANGED <<phase, currentValue, op, latched, faultsLeft, devVars, app>>

\* The caller's lock, given back after digitalWrite has returned.
ThreadRelease(i) ==
    /\ threads.mode = "mutex"
    /\ threads.t[i].pc = "release"
    /\ threads' = [threads EXCEPT !.holder = 0, !.t[i].pc = "done"]
    /\ UNCHANGED <<phase, currentValue, wire, op, trace, latched, faultsLeft, devVars, app>>

\* Both calls have returned and the threads are joined.
JoinThreads ==
    /\ AllDone
    /\ threads' = [NoThreads EXCEPT !.runs = threads.runs]
    /\ op' = NoOp
    /\ trace' = <<>>
    /\ UNCHANGED <<phase, currentValue, wire, latched, faultsLeft, devVars, app>>

\* The return of a call made by one caller.
ReturnSingle == Return /\ op.name # "threads" /\ NoDevice

\* Bytes cached before the threads start: mixed bits, all bits.
StartBytes == {85, 255}

NextThreads ==
    \/ PortConstruct /\ NoDevice
    \/ WriteByte(StartBytes) /\ NoDevice
    \/ ReturnSingle
    \/ StartThreads
    \/ \E i \in ThreadIds : ThreadAcquire(i)
    \/ \E i \in ThreadIds : ThreadRead(i)
    \/ \E i \in ThreadIds : ThreadStore(i)
    \/ \E i \in ThreadIds : ThreadBusWrite(i)
    \/ \E i \in ThreadIds : ThreadRelease(i)
    \/ JoinThreads

\* Two threads on one port, with and without a lock, on a bus that never
\* fails.
SpecThreads == InitReliable /\ [][NextThreads]_vars

(***************************************************************************)
(* src/physical_interface/lcd_screen.py: the expander port PFCF574_12C.    *)
(* phase "screen": an instance with the attributes __init__ assigns (bus,  *)
(* address, currentValue = 0, lines 8-10).  writeByte (lines 16-18) is the *)
(* code of PCF8574_I2C.writeByte.                                          *)
(***************************************************************************)
\* __init__, lines 7-11: after the three assignments it calls
\* self.writeBype(0), a name the class does not define: AttributeError, and no
\* bus write.
PFCF574_12C_init == [prog |-> <<>>, raised |-> "AttributeError"]

\* digitalWrite(pin, newvalue), lines 23-28, from cached byte cv: for 1 the
\* bit is set in the local "value" and nothing is written; for 0 writeByte is
\* called with the byte as it was read; for anything else nothing happens.
PFCF574_12C_digitalWrite(cv, pin, newvalue) ==
    IF newvalue = 0 THEN <<WB(cv)>> ELSE <<>>

ScreenConstruct ==
    /\ Idle
    /\ phase = "none"
    /\ Call("PFCF574_12C", 0, 0, NoText, PFCF574_12C_init, 0)
    /\ phase' = "screen"

ScreenWriteByte(values) ==
    /\ Idle
    /\ phase = "screen"
    /\ \E value \in values : \E failAt \in FailAts(<<WB(value)>>) :
         Call("screen.writeByte", value, 0, NoText, Plain(<<WB(value)>>), failAt)
    /\ UNCHANGED phase

ScreenDigitalWrite ==
    /\ Idle
    /\ phase = "screen"
    /\ \E pin \in Pins, newvalue \in {0, 1} :
         \E pr \in {Plain(PFCF574_12C_digitalWrite(currentValue, pin, newvalue))} :
         \E failAt \in FailAts(pr.prog) :
           Call("screen.digitalWrite", pin, newvalue, NoText, pr, failAt)
    /\ UNCHANGED phase

NextScreen ==
    \/ ScreenConstruct /\ NoDevice
    \/ ScreenWriteByte(Bytes) /\ NoDevice
    \/ ScreenDigitalWrite /\ NoDevice
    \/ Return /\ NoDevice

\* The port of lcd_screen.py on a bus that never fails.
SpecScreen == InitReliable /\ [][NextScreen]_vars

(***************************************************************************)
(* What the specification expects, in its own terms.                       *)
(***************************************************************************)
\* A text as the 16-character frame of printLine: the text followed by spaces
\* up to 16, its first 16 characters when it is longer; each character is one
\* byte on the wire, the low eight bits of its code.
Frame16(text) ==
    [i \in 1..16 |-> IF i <= Len(text) THEN text[i] % 256 ELSE 32]

rowOffset == <<0, 64>>

\* The row clamped into {0, 1}.
ClampedRow(row) == IF row < 0 THEN 0 ELSE IF row > 1 THEN 1 ELSE row

\* 0x80 OR (col + rowOffset[row]) as the byte that reaches the display.
AddressByte(col, row) == SetBit(col + rowOffset[row + 1], 7) % 256

IsData(b) == b[1] = 1

\* The data-mode bytes among the latched nibbles, in order.
DataBytes(l) ==
    LET d == SelectSeq(PairBytes(l), IsData) IN [i \in 1..Len(d) |-> d[i][2]]

\* What one printLine call delivers: the address command, then the frame.
Delivery(call) ==
    <<<<0, AddressByte(0, call[1])>>>>
    \o [i \in 1..16 |-> <<1, Frame16(call[2])[i]>>]

RECURSIVE Delivered(_)
Delivered(cs) ==
    IF cs = <<>> THEN <<>>
    ELSE Delivered(SubSeq(cs, 1, Len(cs) - 1)) \o Delivery(cs[Len(cs)])

\* The calls that printed on row r.
OnRow(r) == {i \in 1..Len(calls) : calls[i][1] = r}

LastOnRow(r) == CHOOSE i \in OnRow(r) : \A j \in OnRow(r) : j <= i

AppleFrame == AppleText \o <<32>>

TimeFrame == TimeText \o <<32, 32, 32, 32, 32>>

Called(name) == op.name = name /\ op.raised = "none"

(***************************************************************************)
(* C1                                                                      *)
(***************************************************************************)
\* C1: once writeByte(b) has returned, readByte() returns exactly b, for every
\* byte b of 0..255 and whatever the port held before.
C1_ReadAfterWrite == Called("writeByte") => readByte = op.a

C1_Witness == Called("writeByte") /\ op.a = 170 /\ readByte = 170

(***************************************************************************)
(* C2                                                                      *)
(***************************************************************************)
\* C2: digitalWrite(p, v) makes digitalRead(p) return v and leaves the other
\* seven bits of the cached byte as they were before the call.
C2_DigitalWriteFrame ==
    [][\A p \in Pins, v \in {0, 1} :
         (op'.name = "digitalWrite" /\ op'.raised = "none"
            /\ op'.a = p /\ op'.b = v)
         => /\ digitalRead(p)' = v
            /\ \A q \in Pins \ {p} : Bit(currentValue', q) = Bit(currentValue, q)]_vars

C2_Witness ==
    /\ Called("digitalWrite") /\ op.a = 3 /\ op.b = 0
    /\ currentValue = 247 /\ digitalRead(3) = 0

(***************************************************************************)
(* C3                                                                      *)
(***************************************************************************)
\* C3: in every reachable state, the states after a failed bus write included,
\* currentValue is the last byte that was successfully written to the bus.
C3_CacheIsLastWritten == wire # NoByte => currentValue = wire

(***************************************************************************)
(* C4                                                                      *)
(***************************************************************************)
\* C4: print_line(row, text) writes exactly 16 data-mode bytes to the display:
\* the text followed by spaces when it has at most 16 characters, its first 16
\* characters when it is longer.
C4_SixteenDataBytes ==
    Called("print_line")
    => /\ WellPaired(latched)
       /\ DataBytes(latched) = Frame16(op.text)

C4_Witness ==
    /\ Called("print_line") /\ Len(op.text) > 16
    /\ DataBytes(latched) = SubSeq(op.text, 1, 16)

(***************************************************************************)
(* C5                                                                      *)
(***************************************************************************)
\* C5: after initialization the display receives, for the print_line calls
\* made, one 16-character frame per call in call order, each right after the
\* Set-DDRAM-Address command for column 0 of its row, and nothing else.
C5_FramesInCallOrder ==
    /\ Called("print_line") => WellPaired(latched)
    /\ dev # NoDev => dev.log = Delivered(calls)

C5_Witness ==
    /\ calls = <<<<0, AppleText>>, <<1, TimeText>>>>
    /\ dev.log = <<<<0, 128>>>> \o [i \in 1..16 |-> <<1, AppleFrame[i]>>]
                 \o <<<<0, 192>>>> \o [i \in 1..16 |-> <<1, TimeFrame[i]>>]

(***************************************************************************)
(* C6                                                                      *)
(***************************************************************************)
\* C6: in the display memory the 16 visible cells of a row hold the frame of
\* the last text printed on it; nothing of a text printed there before remains.
C6_RowHoldsLastText ==
    \A r \in {0, 1} :
      (dev # NoDev /\ OnRow(r) # {})
      => VisibleRow(dev, r) = Frame16(calls[LastOnRow(r)][2])

C6_Witness ==
    /\ Len(calls) = 2
    /\ calls[1] = <<0, LetterText(MaxLen)>>
    /\ calls[2] = <<0, NoText>>
    /\ VisibleRow(dev, 0) = [c \in 1..16 |-> 32]

(***************************************************************************)
(* C7                                                                      *)
(***************************************************************************)
\* C7: set_cursor(col, row) with row >= 2 issues the bus writes of
\* set_cursor(col, 1), and for every row >= 0 it sends the one command byte
\* 0x80 OR (col + rowOffset[min(row, 1)]).
C7_CursorClamp ==
    [][(op'.name = "set_cursor" /\ op'.b >= 0)
       => /\ op'.raised = "none"
          /\ WellPaired(latched')
          /\ PairBytes(latched') = <<<<0, AddressByte(op'.a, Min(op'.b, 1))>>>>
          /\ op'.b >= 2
             => trace' = Run(set_cursor(op'.a, 1).prog, currentValue, wire, 0).trace]_vars

C7_Witness ==
    /\ Called("set_cursor") /\ op.a = 5 /\ op.b = 3
    /\ PairBytes(latched) = <<<<0, 197>>>>

(***************************************************************************)
(* C8                                                                      *)
(***************************************************************************)
\* C8: set_cursor and print_line with a row outside {0, 1} raise no error and
\* send the address of the clamped row: row 0 for a negative row, row 1 for a
\* row above 1.
C8_SilentClamp ==
    /\ (op.name = "set_cursor" /\ op.b \notin {0, 1})
       => /\ op.raised = "none"
          /\ PairBytes(latched)[1] = <<0, AddressByte(op.a, ClampedRow(op.b))>>
    /\ (op.name = "print_line" /\ op.a \notin {0, 1})
       => /\ op.raised = "none"
          /\ PairBytes(latched)[1] = <<0, AddressByte(0, ClampedRow(op.a))>>

(***************************************************************************)
(* C9                                                                      *)
(***************************************************************************)
\* C9: the delay that ends command(b) is the 2 ms one exactly when b is in
\* 0..3 and the 50 us one for every other byte; clear() sends byte 1 and
\* home() byte 2, both with the 2 ms delay.
C9_DelayClass ==
    /\ Called("command")
       => trace[Len(trace)] = <<"s", IF op.a \in 0..3 THEN 2000 ELSE 50>>
    /\ Called("clear")
       => PairBytes(latched) = <<<<0, 1>>>> /\ trace[Len(trace) - 1] = <<"s", 2000>>
    /\ Called("home")
       => PairBytes(latched) = <<<<0, 2>>>> /\ trace[Len(trace) - 1] = <<"s", 2000>>

C9_Witness ==
    /\ Called("command") /\ op.a = 3
    /\ trace[Len(trace)] = <<"s", 2000>>

(***************************************************************************)
(* C10                                                                     *)
(***************************************************************************)
\* C10: backlight_off() and backlight_on(), called on a driver whether or not
\* its initialization has completed, issue one bus write, of the cached byte
\* with bit 3 cleared (set) and every other bit as it was, and raise nothing
\* but what the bus raises.
C10_BacklightFrame ==
    [][\A v \in {0, 1} :
         op'.name = (IF v = 0 THEN "backlight_off" ELSE "backlight_on")
         => /\ op'.raised \in {"none", "IOError"}
            /\ op'.raised = "none"
               => /\ trace' = <<<<"w", currentValue'>>>>
                  /\ Bit(currentValue', BL) = v
                  /\ \A q \in Pins \ {BL} :
                       Bit(currentValue', q) = Bit(currentValue, q)]_vars

C10_Witness ==
    /\ Called("backlight_off") /\ phase = "port"
    /\ currentValue = 4 /\ trace = <<<<"w", 4>>>>

(***************************************************************************)
(* C11                                                                     *)
(***************************************************************************)
\* C11: constructing the port issues one bus write, of the byte 0, and leaves
\* currentValue = 0; when that write fails the construction raises the I/O
\* error and there is no port, so no driver operation is ever made.
C11_ConstructionProbe ==
    /\ op.name = "PCF8574_I2C"
       => /\ currentValue = 0
          /\ op.raised \in {"none", "IOError"}
          /\ op.raised = "none" => trace = <<<<"w", 0>>>> /\ phase = "port"
          /\ op.raised = "IOError" => trace = <<>> /\ phase = "none"
    /\ op.name \notin {"none", "PCF8574_I2C"} => phase # "none"

C11_Witness ==
    op.name = "PCF8574_I2C" /\ op.raised = "IOError" /\ phase = "none"

(***************************************************************************)
(* C12                                                                     *)
(***************************************************************************)
\* C12: the first four nibbles the display latches during initialization are
\* 3, 3, 3 and 2.
C12_ResyncNibbles ==
    Called("init_display")
    => /\ Len(latched) >= 4
       /\ [i \in 1..4 |-> latched[i][2]] = <<3, 3, 3, 2>>

(***************************************************************************)
(* C13                                                                     *)
(***************************************************************************)
\* C13: after its four raw nibbles the initialization sends the command bytes
\* 0x28, 0x0C, 0x01, 0x06 in this order and nothing else, and its first bus
\* write, before all of them, sets the backlight bit.
C13_InitCommands ==
    Called("init_display")
    => /\ Len(latched) = 12
       /\ WellPaired(SubSeq(latched, 5, 12))
       /\ PairBytes(SubSeq(latched, 5, 12))
            = <<<<0, 40>>, <<0, 12>>, <<0, 1>>, <<0, 6>>>>
       /\ trace[1][1] = "w" /\ Bit(trace[1][2], 3) = 1

C13_Witness ==
    /\ Called("init_display")
    /\ PairBytes(SubSeq(latched, 5, 12))[4] = <<0, 6>>

(***************************************************************************)
(* C14                                                                     *)
(***************************************************************************)
IsWrite(t, i) == t[i][1] = "w"

\* The bus write that follows position i of a trace.
NextWrite(t, i) ==
    CHOOSE j \in (i + 1)..Len(t) :
      IsWrite(t, j) /\ \A k \in (i + 1)..(j - 1) : ~IsWrite(t, k)

RECURSIVE SleepSum(_, _, _)
SleepSum(t, i, j) == IF i > j THEN 0 ELSE t[i][2] + SleepSum(t, i + 1, j)

\* The delay accumulated between the bus write at i and the next bus write.
DelayAfter(t, i) == SleepSum(t, i + 1, NextWrite(t, i) - 1)

\* The bus writes that take the enable bit from 1 to 0.
Falls(t) ==
    {i \in 2..Len(t) :
       /\ IsWrite(t, i) /\ Bit(t[i][2], 2) = 0
       /\ \E h \in 1..(i - 1) :
            /\ IsWrite(t, h) /\ Bit(t[h][2], 2) = 1
            /\ \A k \in (h + 1)..(i - 1) : ~IsWrite(t, k)}

KthFall(t, k) ==
    CHOOSE i \in Falls(t) : Cardinality({j \in Falls(t) : j < i}) = k - 1

\* C14: in initialization at least 50 ms pass between the backlight write and
\* the first bus write of the first nibble, and at least 5 ms, 5 ms and 2 ms
\* pass after the first, second and third nibble before the next bus write.
C14_InitDelays ==
    Called("init_display")
    => /\ IsWrite(trace, 1) /\ DelayAfter(trace, 1) >= 50000
       /\ DelayAfter(trace, KthFall(trace, 1)) >= 5000
       /\ DelayAfter(trace, KthFall(trace, 2)) >= 5000
       /\ DelayAfter(trace, KthFall(trace, 3)) >= 2000

C14_Witness ==
    /\ Called("init_display")
    /\ DelayAfter(trace, 1) = 50000
    /\ DelayAfter(trace, KthFall(trace, 3)) = 2100

(***************************************************************************)
(* C15                                                                     *)
(***************************************************************************)
\* The port calls and sleeps of the operation a call record names.
OpProgram(o) ==
    CASE o.name = "PCF8574_I2C" -> <<WB(0)>>
      [] o.name = "init_display" -> init_display
      [] o.name = "command" -> command(o.a)
      [] o.name = "write_char" -> write_char(o.a)
      [] o.name = "clear" -> clear
      [] o.name = "home" -> home
      [] o.name = "set_cursor" -> set_cursor(o.a, o.b).prog
      [] o.name = "print" -> print(o.text)
      [] o.name = "print_line" -> print_line(o.a, o.text).prog
      [] o.name = "backlight_on" -> backlight_on
      [] o.name = "backlight_off" -> backlight_off

IsW(e) == e[1] = "w"

\* The bytes written to the bus, in order.
Writes(t) == LET w == SelectSeq(t, IsW) IN [i \in 1..Len(w) |-> w[i][2]]

\* C15: when a bus write of a driver operation fails, the operation raises the
\* error to its caller; the bus has seen the writes before the failing one and
\* nothing after, the failed byte is not written again, and a failed
\* initialization leaves no initialized controller.
C15_FailureStops ==
    op.failAt # 0
    => /\ op.raised = "IOError"
       /\ Writes(trace)
            = SubSeq(Writes(Run(OpProgram(op), op.cv0, op.wire0, 0).trace),
                     1, op.failAt - 1)
       /\ wire = IF op.failAt = 1 THEN op.wire0 ELSE Writes(trace)[op.failAt - 1]
       /\ op.name = "init_display" => phase # "ready"
       /\ op.name = "PCF8574_I2C" => phase = "none"

C15_Witness ==
    /\ op.name = "print_line" /\ op.raised = "IOError"
    /\ Len(latched) = 33

(***************************************************************************)
(* C16                                                                     *)
(***************************************************************************)
\* The numbers of bus writes after which update_display is between two of its
\* print_line operations.
BetweenOperations(product) ==
    {0, NWrites(print_line(0, product).prog),
     NWrites(update_display(product, PauseText))}

\* C16: an operation that has issued its first bus write issues all its bus
\* writes before any bus write of another operation: when signal_handler
\* starts its display calls, update_display is not in the middle of a
\* print_line.
C16_RunsToCompletion ==
    (op.name = "signal_handler" /\ op.b # 0)
    => op.a \in BetweenOperations(op.text)

(***************************************************************************)
(* C17                                                                     *)
(***************************************************************************)
\* The cached byte after thread i's update alone, after thread i's then the
\* other's, from the byte cached when the threads started.
OnlyUpdate(i) ==
    digitalWriteValue(op.cv0, threads.t[i].pin, threads.t[i].newvalue)

BothUpdates ==
    digitalWriteValue(OnlyUpdate(1), threads.t[2].pin, threads.t[2].newvalue)

\* C17: when two threads have called digitalWrite on different pins, the
\* cached byte holds both updates if a lock serialized the calls; without a
\* lock it holds both or only one of them (the read-modify-write is not
\* atomic), never anything else.
C17_LostUpdate ==
    AllDone
    => /\ threads.mode = "mutex" => currentValue = BothUpdates /\ wire = BothUpdates
       /\ threads.mode = "free"
          => currentValue \in {BothUpdates, OnlyUpdate(1), OnlyUpdate(2)}

\* Without a lock, both calls returned and the update of thread 1 is lost.
C17_Witness ==
    /\ AllDone
    /\ threads.mode = "free"
    /\ currentValue # BothUpdates
    /\ currentValue = OnlyUpdate(2)
    /\ Bit(currentValue, threads.t[1].pin) # threads.t[1].newvalue

(***************************************************************************)
(* C18                                                                     *)
(***************************************************************************)
IsLongSleep(e) == e = <<"s", 1000000>>

\* The position of the one-second delay in a trace.
DelayAt(t) == CHOOSE i \in 1..Len(t) : IsLongSleep(t[i])

\* C18: signal_handler sends clear, the goodbye text on row 0, a text on row 1,
\* waits, sends clear and puts the backlight out, in this order; when no bus
\* write fails the last byte written has bit 3 and bit 2 at 0.
C18_ShutdownSequence ==
    (Called("signal_handler") /\ op.b = 0)
    => /\ (Bit(op.cv0, 2) = 0 /\ Bit(op.wire0, 2) = 0)
          => /\ WellPaired(latched)
             /\ PairBytes(latched)
                  = <<<<0, 1>>>> \o Delivery(<<0, GoodbyeText>>)
                    \o Delivery(<<1, ShutdownText>>) \o <<<<0, 1>>>>
       /\ Len(SelectSeq(trace, IsLongSleep)) = 1
       /\ Len(Writes(SubSeq(trace, DelayAt(trace) + 1, Len(trace)))) = 16
       /\ trace[Len(trace)] = <<"w", wire>>
       /\ Bit(wire, 3) = 0 /\ Bit(wire, 2) = 0

C18_Witness ==
    /\ Called("signal_handler") /\ op.b = 0 /\ phase = "finally"
    /\ Bit(op.cv0, 3) = 1
    /\ Len(latched) = 72
    /\ Bit(wire, 3) = 0 /\ Bit(wire, 2) = 0

(***************************************************************************)
(* C19                                                                     *)
(***************************************************************************)
\* C19: a bus failure during update_display is caught inside update_display:
\* the main loop does not end, it is where its next cycle calls update_display
\* again.
C19_UpdateFailureCaught ==
    [][(op'.name = "update_display" /\ op'.failAt # 0)
       => /\ op'.raised = "IOError"
          /\ phase = "loop" /\ phase' = "loop"]_vars

C19_Witness ==
    /\ op.name = "update_display" /\ op.failAt # 0
    /\ op.raised = "IOError" /\ phase = "loop"

(***************************************************************************)
(* C20                                                                     *)
(***************************************************************************)
\* C20: when constructing the display fails, at the probe or at any write of
\* the initialization, main returns: no loading screen, no update loop, no
\* display call at all afterwards.
C20_StartupFailureReturns ==
    /\ (op.name = "LCD1602" /\ op.failAt # 0)
       => op.raised = "IOError" /\ phase = "returned"
    /\ phase = "returned" => op.name \in {"none", "LCD1602"}
    /\ op.name \in {"display_loading_screen", "update_display", "signal_handler"}
       => phase \in {"loop", "finally", "exited"}

C20_Witness ==
    /\ phase = "returned" /\ op.name = "LCD1602"
    /\ op.failAt > 1 /\ Len(trace) > 1

(***************************************************************************)
(* C21                                                                     *)
(***************************************************************************)
\* A bus write with the enable bit high.
EnHigh(e) == e[1] = "w" /\ Bit(e[2], En) = 1

\* Entry i of trace t, when the call got that far, is a sleep of at least us.
SleepAt(t, i, us) == i <= Len(t) => (t[i][1] = "s" /\ t[i][2] >= us)

\* Entry i of trace t, when the call got that far, is the write of byte b.
WriteAt(t, i, b) == i <= Len(t) => t[i] = <<"w", b>>

IsEnHighCall(s) == s = DW(En, 1)

C22_TenWrites ==
    (op.name \in {"command", "write_char"} /\ op.raised = "none")
    => Len(Writes(trace)) = 10

(***************************************************************************)
(* C23                                                                     *)
(***************************************************************************)
\* C23: command(b), for every byte b, makes the display latch exactly two
\* nibbles, both with register-select 0: b >> 4, then b & 0x0F.
C23_CommandFrame ==
    Called("command")
    => latched = <<<<0, op.a \div 16>>, <<0, op.a % 16>>>>

C23_Witness ==
    /\ Called("command") /\ op.a = 165
    /\ latched = <<<<0, 10>>, <<0, 5>>>>

(***************************************************************************)
(* C24                                                                     *)
(***************************************************************************)
IsSleep(e) == e[1] = "s"

\* C24: write_char(b), for every byte b, makes the display latch exactly two
\* nibbles, both with register-select 1: b >> 4, then b & 0x0F; it ends with
\* the 50 us delay and never waits longer than the 100 us of a pulse, also
\* for b < 4.
C24_CharFrame ==
    Called("write_char")
    => /\ latched = <<<<1, op.a \div 16>>, <<1, op.a % 16>>>>
       /\ trace[Len(trace)] = <<"s", 50>>
       /\ \A i \in 1..Len(trace) : IsSleep(trace[i]) => trace[i][2] <= 100

C24_Witness ==
    /\ Called("write_char") /\ op.a = 1
    /\ latched = <<<<1, 0>>, <<1, 1>>>>
    /\ trace[Len(trace)] = <<"s", 50>>

(***************************************************************************)
(* C25                                                                     *)
(***************************************************************************)
\* The command and character bytes a completed operation sends; for
\* init_display those after the four raw nibbles.
Transfers(o) ==
    CASE o.name = "init_display" -> 4
      [] o.name \in {"command", "write_char", "clear", "home", "set_cursor"} -> 1
      [] o.name = "print" -> Len(o.text)
      [] o.name = "print_line" -> 1 + LineWidth
      [] OTHER -> 0

\* The nibbles latched after the fourth raw nibble of init_display, all the
\* nibbles of any other call.
SinceSwitch ==
    IF op.name = "init_display" THEN SubSeq(latched, 5, Len(latched)) ELSE latched

\* C25: on a bus that never fails, every operation that returns has made the
\* display latch, from the 4-bit switch nibble onwards, two nibbles for each
\* byte it sends and nothing else: an even number, in pairs of one
\* register-select value.
C25_NibblePairs ==
    (op.name # "none" /\ op.raised = "none")
    => /\ op.name = "init_display" => Len(latched) >= 4
       /\ Len(SinceSwitch) = 2 * Transfers(op)
       /\ WellPaired(SinceSwitch)

C25_Witness ==
    /\ Called("print") /\ Len(op.text) = MaxLen
    /\ Len(latched) = 2 * MaxLen
    /\ WellPaired(latched)

(***************************************************************************)
(* C26                                                                     *)
(***************************************************************************)
\* C26: print(text) makes the display latch exactly len(text) bytes, all in
\* data mode, the i-th being the code of the i-th character of the text.
C26_PrintBytes ==
    Called("print")
    => /\ WellPaired(latched)
       /\ PairBytes(latched) = [i \in 1..Len(op.text) |-> <<1, op.text[i]>>]

(***************************************************************************)
(* C27                                                                     *)
(***************************************************************************)
\* The backlight bit the bytes of the current call must carry: the one the
\* call found, except that init_display and backlight_on set it and
\* backlight_off clears it.
BacklightDuring ==
    IF op.name \in {"init_display", "backlight_on"} THEN 1
    ELSE IF op.name = "backlight_off" THEN 0
    ELSE Bit(op.cv0, BL)

\* C27: every byte a driver operation writes to the bus has bit 1 at 0 and
\* the backlight bit untouched by the nibble writes; the nibbles of command(b)
\* and write_char(b) reach the display on bits 4..7, bit i of the nibble on
\* bit 4 + i.
C27_BitLayout ==
    /\ \A i \in 1..Len(trace) :
         IsW(trace[i])
         => /\ Bit(trace[i][2], 1) = 0
            /\ Bit(trace[i][2], BL) = BacklightDuring
    /\ Bit(currentValue, 1) = 0
    /\ \A k \in 1..Len(latched) : latched[k][2] \in 0..15
    /\ (op.name \in {"command", "write_char"} /\ op.raised = "none"
        /\ Bit(op.cv0, En) = 0 /\ Bit(op.wire0, En) = 0)
       => LET high == SelectSeq(trace, EnHigh)
          IN  /\ Len(high) = 2
              /\ \A i \in 0..3 :
                   /\ Bit(high[1][2], D4 + i) = Bit(op.a \div 16, i)
                   /\ Bit(high[2][2], D4 + i) = Bit(op.a, i)

C27_Witness ==
    /\ Called("write_char") /\ op.a = 255
    /\ Bit(op.cv0, BL) = 1
    /\ wire = 249

(***************************************************************************)
(* C28                                                                     *)
(***************************************************************************)
\* What the same print_line call latches when it is the first call after
\* init_display: cached byte and wire with the backlight bit alone.
ReferenceLatched ==
    Run(print_line(op.a, op.text).prog, SetBit(0, BL), SetBit(0, BL), 0).latched

\* C28: the bytes a print_line(row, text) call makes the display latch are
\* those the same call latches when made first after initialization, whatever
\* the cached byte it starts from and whatever calls came before it.
C28_RenderOnlyFromArguments ==
    Called("print_line")
    => /\ WellPaired(latched)
       /\ PairBytes(latched) = PairBytes(ReferenceLatched)

\* print_line started with the backlight off, data mode and a nibble of ones
\* left on the port by the calls before it.
C28_Witness ==
    /\ Called("print_line") /\ op.text = AppleText /\ op.a = 1
    /\ Bit(op.cv0, BL) = 0 /\ Bit(op.cv0, RS) = 1 /\ Nibble(op.cv0) = 15
    /\ Len(latched) = 34

(***************************************************************************)
(* C29                                                                     *)
(***************************************************************************)
\* The bus writes of an operation that completes: 7 for a raw nibble (four
\* data pins, three enable writes), 15 for a command or character byte (the
\* register-select write and two nibbles), 1 for a backlight write and for
\* the probe of the port.
WriteBound(o) ==
    CASE o.name = "init_display" -> 1 + 4 * 7 + 4 * 15
      [] o.name \in {"PCF8574_I2C", "backlight_on", "backlight_off"} -> 1
      [] OTHER -> 15 * Transfers(o)

\* C29: on a bus that never fails init_display returns after a fixed number
\* of bus writes, having passed its steps once each and in order: the
\* backlight write and its 50 ms, four raw nibbles, then function set,
\* display control, clear and entry mode; the controller is then ready.
\* Every other operation returns after a number of bus writes fixed by the
\* length of its argument.
C29_LinearAndBounded ==
    (op.name # "none" /\ op.raised = "none")
    => /\ Len(Writes(trace)) = WriteBound(op)
       /\ op.name = "init_display"
          => /\ phase = "ready"
             /\ trace[1] = <<"w", SetBit(op.cv0, BL)>>
             /\ trace[2] = <<"s", 50000>>
             /\ Len(latched) = 4 + 2 * 4
             /\ \A k \in 1..4 : latched[k][1] = Bit(op.cv0, RS)
             /\ PairBytes(SubSeq(latched, 5, Len(latched)))
                  = <<<<0, LCD_FUNCTIONSET + LCD_2LINE>>,
                      <<0, LCD_DISPLAYCONTROL + LCD_DISPLAYON>>,
                      <<0, LCD_CLEARDISPLAY>>,
                      <<0, LCD_ENTRYMODESET + LCD_ENTRYLEFT>>>>

C29_Witness ==
    /\ Called("init_display") /\ phase = "ready"
    /\ Len(Writes(trace)) = 89
    /\ Len(latched) = 12

(***************************************************************************)
(* C30                                                                     *)
(***************************************************************************)
\* C30: digitalWrite(pin, value) of the port of lcd_screen.py, for value 0 or
\* 1, makes one bus write, of the cached byte with the bit of the pin set for
\* 1 and cleared for 0, and the cached bit of the pin equals value afterwards.
C30_ScreenDigitalWrite ==
    (op.name = "screen.digitalWrite" /\ op.raised = "none")
    => /\ Writes(trace) = <<digitalWriteValue(op.cv0, op.a, op.b)>>
       /\ Bit(currentValue, op.a) = op.b

(***************************************************************************)
(* C31                                                                     *)
(***************************************************************************)
\* C31: constructing the port of lcd_screen.py on a working bus succeeds,
\* after exactly one bus write, of the byte 0.
C31_ScreenConstructs ==
    op.name = "PFCF574_12C"
    => /\ op.raised = "none"
       /\ trace = <<<<"w", 0>>>>
       /\ wire = 0

(***************************************************************************)
(* C32                                                                     *)
(***************************************************************************)
\* C32: on a bus that never fails the cached byte and the wire have the
\* enable bit at 0 whenever no call is running and at every return; during a
\* call a byte has the enable bit at 1 exactly when it is written by the
\* second write of a pulse_enable, which stands between the first and the
\* third, both with enable 0.
C32_EnableLowAtReturn ==
    /\ Bit(currentValue, En) = 0
    /\ wire # NoByte => Bit(wire, En) = 0
    /\ (op.name # "none" /\ op.raised = "none")
       => LET W == Writes(trace)
              P == SelectSeq(OpProgram(op), IsPortCall)
          IN  /\ Len(W) = Len(P)
              /\ \A i \in 1..Len(P) :
                   /\ (Bit(W[i], En) = 1) <=> (P[i] = DW(En, 1))
                   /\ P[i] = DW(En, 1)
                      => /\ 1 < i /\ i < Len(P)
                         /\ P[i - 1] = DW(En, 0)
                         /\ P[i + 1] = DW(En, 0)

C32_Witness ==
    /\ Called("print_line") /\ Len(latched) = 34
    /\ Bit(currentValue, En) = 0
    /\ Len(SelectSeq(trace, EnHigh)) = 34

(***************************************************************************)
(* C33                                                                     *)
(***************************************************************************)
TextOperations ==
    {"command", "write_char", "clear", "home", "set_cursor", "print", "print_line"}

\* C33: a command, write_char, clear, home, set_cursor, print or print_line
\* call writes every byte with the backlight bit the cached byte had when the
\* call began and leaves that bit as it was; init_display and backlight_on
\* leave it at 1, backlight_off at 0, and it does not change between calls.
\* So every byte written after the bit was set has it set until backlight_off
\* is called, and clear from then on.
C33_BacklightPersists ==
    [][/\ op'.name \in TextOperations
          => /\ \A i \in 1..Len(trace') :
                  IsW(trace'[i]) => Bit(trace'[i][2], BL) = Bit(currentValue, BL)
             /\ Bit(currentValue', BL) = Bit(currentValue, BL)
       /\ (op'.name \in {"init_display", "backlight_on"} /\ op'.raised = "none")
          => Bit(currentValue', BL) = 1 /\ Bit(wire', BL) = 1
       /\ (op'.name = "backlight_off" /\ op'.raised = "none")
          => Bit(currentValue', BL) = 0 /\ Bit(wire', BL) = 0
       /\ op'.name = "none" => currentValue' = currentValue /\ wire' = wire]_vars

\* A print_line made after backlight_off: all its bytes with bit 3 clear.
C33_Witness ==
    /\ Called("print_line") /\ Len(latched) = 34
    /\ Bit(op.cv0, BL) = 0
    /\ \A i \in 1..Len(trace) : IsW(trace[i]) => Bit(trace[i][2], BL) = 0

(***************************************************************************)
(* C34                                                                     *)
(***************************************************************************)
\* C34: a character with a code above 255 is sent like any other, as two
\* nibbles that form its code modulo 256: write_char latches one byte, print
\* one byte for each character, print_line 16 data bytes, and none of them
\* raises.
C34_WideCharacters ==
    /\ op.name \in {"write_char", "print", "print_line"} => op.raised = "none"
    /\ Called("write_char")
       => /\ latched = <<<<1, (op.a \div 16) % 16>>, <<1, op.a % 16>>>>
          /\ PairBytes(latched) = <<<<1, op.a % 256>>>>
    /\ Called("print")
       => /\ WellPaired(latched)
          /\ PairBytes(latched) = [i \in 1..Len(op.text) |-> <<1, op.text[i] % 256>>]
    /\ Called("print_line")
       => /\ WellPaired(latched)
          /\ Len(latched) = 2 * (1 + LineWidth)
          /\ DataBytes(latched)
               = [i \in 1..LineWidth |->
                    IF i <= Len(op.text) THEN op.text[i] % 256 ELSE Space]

\* print_line of "⏸05:32": its first data byte is 9208 mod 256.
C34_Witness ==
    /\ Called("print_line") /\ op.text[1] = 9208
    /\ Len(DataBytes(latched)) = 16
    /\ DataBytes(latched)[1] = 248

(***************************************************************************)
(* C35                                                                     *)
(***************************************************************************)
\* The addresses of the 16 cells the display shows of row r.
VisibleCells(r) == {CellAddr(r, c) : c \in 0..(LineWidth - 1)}

\* C35: print_line(r, text) with r 0 or 1 changes no cell of the display
\* memory but the 16 visible cells of row r: the visible cells of the other
\* row and every cell off the screen keep their contents.
C35_OnlyRowChanges ==
    [][(op.name = "none" /\ op'.name = "print_line" /\ op'.raised = "none")
       => /\ op'.a \in {0, 1}
          /\ \A a \in DDRAM \ VisibleCells(op'.a) : dev'.mem[a] = dev.mem[a]
          /\ VisibleRow(dev', 1 - op'.a) = VisibleRow(dev, 1 - op'.a)]_vars

\* print_line(1, ...) on a display that shows "Ap" at the end of row 0 and holds
\* the rest of the name off the screen, all still there.
C35_Witness ==
    /\ Called("print_line") /\ op.a = 1
    /\ Len(calls) = 3
    /\ dev.mem[CellAddr(0, 14)] = 65
    /\ dev.mem[CellAddr(0, 16)] = 112
    /\ VisibleRow(dev, 1) = Frame16(op.text)

(***************************************************************************)
(* C36                                                                     *)
(***************************************************************************)
\* C36: on SIGINT in the main loop the shutdown sequence (clear, the goodbye
\* lines, clear, backlight off) and GPIO.cleanup are executed exactly once
\* before the process exits: the handler, which has run them when main's
\* finally clause (phase "finally") is reached, is not run from there again.
C36_ShutdownOnce ==
    ~ (/\ op.name = "signal_handler"
       /\ phase = "exited"
       /\ op.failAt = 0
       /\ Len(Writes(trace)) = NWrites(signal_handler))

(***************************************************************************)
(* C37                                                                     *)
(***************************************************************************)
\* The callback that ran last was button and passed the debounce test.
Accepted(button) == app.press.button = button /\ app.press.accepted

\* C37: with a product list that is not empty, after any UP and DOWN callbacks
\* 0 <= product_index < len(products), and update_display, whenever it runs,
\* finds products[product_index] and shows it on row 0 without raising; an
\* accepted UP moves the index one down and from 0 to the last product, an
\* accepted DOWN one up and from the last product to 0, and an accepted DOWN
\* right after an accepted UP leaves the index where it was before the UP.
C37_IndexInRange ==
    LET g == app.g
        n == Len(g.products)
        was == app.press.before.product_index
    IN  /\ n > 0 => 0 <= g.product_index /\ g.product_index < n
        /\ op.name = "update_display"
           => /\ op.raised = "none"
              /\ op.a \in 0..(n - 1)
              /\ SubSeq(DataBytes(latched), 1, LineWidth) = Frame16(g.products[op.a + 1])
        /\ Accepted("UP") => g.product_index = (IF was = 0 THEN n - 1 ELSE was - 1)
        /\ Accepted("DOWN") => g.product_index = (IF was = n - 1 THEN 0 ELSE was + 1)
        /\ (Accepted("DOWN") /\ app.press.prev.button = "UP" /\ app.press.prev.accepted)
           => g.product_index = app.press.prev.index

\* Three products: UP from the first went to the last, DOWN came back to the
\* first, and update_display shows it.
C37_Witness ==
    /\ Called("update_display") /\ op.a = 0
    /\ Len(app.g.products) = 3
    /\ Accepted("DOWN")
    /\ app.press.prev = [button |-> "UP", accepted |-> TRUE, index |-> 0]
    /\ app.press.before.product_index = 2
    /\ app.g.product_index = 0

(***************************************************************************)
(* C38                                                                     *)
(***************************************************************************)
\* The seconds the stopwatch has counted at app.now.
TotalSeconds ==
    PyInt(app.g.stopwatch_elapsed
          + (IF app.g.stopwatch_running
             THEN app.now - app.g.stopwatch_start_time ELSE 0))

\* Row 1 as update_display sent it: the 16 data bytes after those of row 0.
StatusRow == SubSeq(DataBytes(latched), LineWidth + 1, 2 * LineWidth)

\* The seconds a row "?MM:SS" shows.
ShownSeconds(row) ==
    60 * (10 * (row[2] - 48) + (row[3] - 48)) + 10 * (row[5] - 48) + (row[6] - 48)

\* C38: after any TIMER callbacks stopwatch_running is true exactly when
\* stopwatch_start_time is set; an accepted press starts a stopped stopwatch
\* and stops a running one; stopwatch_elapsed never decreases and changes only
\* when the stopwatch is stopped, by the time it ran; and what update_display
\* shows on row 1 is the indicator and MM:SS of the time counted, 99:59 when
\* that is more, never above 99:59.
C38_Stopwatch ==
    LET g == app.g
        b == app.press.before
    IN  /\ g.stopwatch_running <=> g.stopwatch_start_time # None
        /\ Accepted("TIMER") => g.stopwatch_running = ~ b.stopwatch_running
        /\ g.stopwatch_elapsed >= b.stopwatch_elapsed
        /\ g.stopwatch_elapsed # b.stopwatch_elapsed
           => Accepted("TIMER") /\ b.stopwatch_running
        /\ (Accepted("TIMER") /\ b.stopwatch_running)
           => g.stopwatch_elapsed
                >= b.stopwatch_elapsed + (app.press.at - b.stopwatch_start_time)
        /\ op.name = "update_display"
           => /\ op.raised = "none"
              /\ Len(DataBytes(latched)) = 2 * LineWidth
              /\ StatusRow[1] = (IF g.stopwatch_running THEN 9654 ELSE 9208) % 256
              /\ \A i \in {2, 3, 5, 6} : StatusRow[i] \in 48..57
              /\ StatusRow[4] = 58
              /\ StatusRow[5] <= 53
              /\ \A i \in 7..LineWidth : StatusRow[i] = Space
              /\ ShownSeconds(StatusRow) = Min(TotalSeconds, 99 * 60 + 59)

\* The stopwatch ran a hundred minutes, was stopped and started again; the
\* display shows the running indicator and 99:59.
C38_Witness ==
    /\ Called("update_display")
    /\ Accepted("TIMER")
    /\ app.g.stopwatch_running
    /\ app.g.stopwatch_elapsed = 6000 * TicksPerSecond
    /\ TotalSeconds > 99 * 60 + 59
    /\ SubSeq(StatusRow, 1, 6) = <<182, 57, 57, 58, 53, 57>>

(***************************************************************************)
(* C39                                                                     *)
(***************************************************************************)
\* The time between the callback that ran last and the press accepted before
\* it (last_button_time as the callback found it).
SinceAccepted == app.press.at - app.press.before.last_button_time

\* C39: a callback of any of the three buttons that comes less than
\* DEBOUNCE_TIME after the last accepted press of any of them leaves every
\* global as it was (product_index, the stopwatch, last_button_time); a
\* callback that comes DEBOUNCE_TIME or more after it is accepted and sets
\* last_button_time to the time it read.
C39_Debounce ==
    app.press.button # "none"
    => /\ app.press.button \in {"UP", "DOWN", "TIMER"}
       /\ SinceAccepted < DEBOUNCE_TIME => app.g = app.press.before
       /\ SinceAccepted >= DEBOUNCE_TIME
          => /\ app.g.last_button_time = app.press.at
             /\ app.press.button \in {"UP", "DOWN"}
                => (app.g.product_index # app.press.before.product_index
                    \/ Len(app.g.products) = 1)
             /\ app.press.button = "TIMER"
                => app.g.stopwatch_running # app.press.before.stopwatch_running

\* TIMER pressed two tenths of a second after an accepted UP: nothing changed.
C39_Witness ==
    /\ app.press.button = "TIMER"
    /\ app.press.prev.button = "UP" /\ app.press.prev.accepted
    /\ SinceAccepted = 2
    /\ app.g = app.press.before
    /\ ~ app.g.stopwatch_running

====
